---- MODULE Spec2Model ----
(***************************************************************************)
(* nvrust: SPDM attestation-report decoding (neighbor / attached PDIs),    *)
(* the GPU and NVSwitch topology checks built on it, and the verification  *)
(* of the NRAS result token.                                               *)
(*                                                                         *)
(* Byte buffers are sequences of naturals 0..255.  Rust indexes from 0 and *)
(* TLA+ from 1: At and Slice do the translation.  A Rust index or slice    *)
(* out of range is a panic, modelled as the outcome "panic".               *)
(***************************************************************************)
EXTENDS Integers, Sequences, FiniteSets, TLC

\* ------------------------------------------------------------------------
\* Outcomes of a fallible step.  rd is the set of offsets of the buffer the
\* step was given that it has read.
Ok(v, r) == [kind |-> "ok", err |-> "none", val |-> v, rd |-> r]
Err(e, r) == [kind |-> "err", err |-> e, val |-> <<>>, rd |-> r]
Panic(r) == [kind |-> "panic", err |-> "none", val |-> <<>>, rd |-> r]
Cont(p, r) == [kind |-> "continue", err |-> "none", val |-> p, rd |-> r]

At(s, i) == s[i + 1]
Slice(s, a, b) == SubSeq(s, a + 1, b)
Shift(S, base) == {base + x : x \in S}

\* u16::from_le_bytes / u32::from_le_bytes([b0, b1, b2, 0])
u16_from_le_bytes(b0, b1) == b0 + 256 * b1
u32_from_le_bytes(b0, b1, b2, b3) == b0 + 256 * b1 + 65536 * b2 + 16777216 * b3

\* ------------------------------------------------------------------------
\* Program constants
LENGTH_OF_SPDM_GET_MEASUREMENT_REQUEST_MESSAGE == 37
SPDM_VERSION == 1
REQUEST_RESPONSE_CODE == 1
PARAM1 == 1
PARAM2 == 1
NUMBER_OF_BLOCKS == 1
MEASUREMENT_RECORD_LENGTH == 3
NONCE == 32
OPAQUE_DATA == 2
OPAQUE_DATA_FIELD_TYPE == 2
OPAQUE_DATA_FIELD_SIZE == 2
PDI_DATA_FIELD_SIZE == 8
OPAQUE_FIELD_ID_SWITCH_PDI == 22
OPAQUE_FIELD_ID_DEVICE_PDI == 22
OPAQUE_FIELD_ID_SWITCH_GPU_PDIS == 26
TOTAL_NUMBER_OF_PDIS == 8
NUMBER_OF_GPU_TOPOLOGY_CHECK_REPORTS == 8
NUMBER_OF_SWITCH_PDIS == 4
NUMBER_OF_SWITCH_ATTESTATION_REPORTS == 4

\* ------------------------------------------------------------------------
\* topology/src/switch_pdis.rs: the neighbor parser (a GPU's report)

\* report.len() < LENGTH_OF_SPDM_GET_MEASUREMENT_REQUEST_MESSAGE
ReportTooShortOffByOne(report) == Len(report) < LENGTH_OF_SPDM_GET_MEASUREMENT_REQUEST_MESSAGE - 1
ReportTooShort(report) == Len(report) < LENGTH_OF_SPDM_GET_MEASUREMENT_REQUEST_MESSAGE

\* spdm_measurement.len() < length_of_field
check_spdm_measurement_length(spdm_measurement, length_of_field) ==
    IF Len(spdm_measurement) < length_of_field
    THEN Err("InvalidSpdmMeasurementLength", {})
    ELSE Ok(<<>>, {})

\* The offset of the measurement-record-length field.
RecordLengthOffset == SPDM_VERSION + REQUEST_RESPONSE_CODE + PARAM1 + PARAM2 + NUMBER_OF_BLOCKS

\* Reads the 3-byte record length at offset o; indexing past the end panics.
ReadRecordLength(spdm_measurement, o) ==
    IF o + 2 >= Len(spdm_measurement)
    THEN Panic({x \in o..(o + 2) : x < Len(spdm_measurement)})
    ELSE Ok(u32_from_le_bytes(At(spdm_measurement, o), At(spdm_measurement, o + 1),
                              At(spdm_measurement, o + 2), 0), o..(o + 2))

\* Reads a 2-byte little-endian field at offset o; indexing past the end panics.
ReadU16(buf, o) ==
    IF o + 1 >= Len(buf)
    THEN Panic({x \in o..(o + 1) : x < Len(buf)})
    ELSE Ok(u16_from_le_bytes(At(buf, o), At(buf, o + 1)), o..(o + 1))

\* switch_pdis.rs compute_opaque_data_position: the length field is checked
\* by its offset only, then read; the opaque length is read at the field.
compute_opaque_data_position(spdm_measurement) ==
    LET o0 == RecordLengthOffset
        c0 == check_spdm_measurement_length(spdm_measurement, o0)
    IN IF c0.kind = "err" THEN c0
       ELSE LET r0 == ReadRecordLength(spdm_measurement, o0)
            IN IF r0.kind = "panic" THEN r0
               ELSE LET o1 == o0 + MEASUREMENT_RECORD_LENGTH + r0.val + NONCE
                        c1 == check_spdm_measurement_length(spdm_measurement, o1)
                    IN IF c1.kind = "err" THEN Err(c1.err, r0.rd)
                       ELSE LET r1 == ReadU16(spdm_measurement, o1)
                            IN IF r1.kind = "panic" THEN Panic(r0.rd \cup r1.rd)
                               ELSE Ok(<<o1 + OPAQUE_DATA, r1.val>>, r0.rd \cup r1.rd)

\* &spdm_measurement[start..start + length]
SliceOpaqueData(spdm_measurement, start, length) ==
    IF start > Len(spdm_measurement) \/ start + length > Len(spdm_measurement)
    THEN Panic({})
    ELSE Ok(Slice(spdm_measurement, start, start + length), {})

\* One iteration of the while loop of extract_switch_gpu_pdis_in_opaque_data,
\* entered with current_position < opaque_data.len().  The slices are taken
\* before try_into, so a short header panics; a 2-byte slice always converts,
\* and the two map_err arms are never taken.
\* One pass that steps over the value of an entry but not over its header.
ScanSwitchPdiStepValueOnly(opaque_data, current_position) ==
    IF current_position + OPAQUE_DATA_FIELD_TYPE > Len(opaque_data) THEN Panic({})
    ELSE LET data_type == u16_from_le_bytes(At(opaque_data, current_position),
                                            At(opaque_data, current_position + 1))
             p1 == current_position + OPAQUE_DATA_FIELD_TYPE
         IN IF p1 + OPAQUE_DATA_FIELD_SIZE > Len(opaque_data)
            THEN Panic(current_position..(p1 - 1))
            ELSE LET data_size == u16_from_le_bytes(At(opaque_data, p1), At(opaque_data, p1 + 1))
                     p2 == p1 + OPAQUE_DATA_FIELD_SIZE
                 IN IF data_type = OPAQUE_FIELD_ID_SWITCH_PDI
                    THEN IF p2 + data_size > Len(opaque_data)
                         THEN Panic(current_position..(p2 - 1))
                         ELSE Ok(Slice(opaque_data, p2, p2 + data_size),
                                 current_position..(p2 + data_size - 1))
                    ELSE Cont(current_position + data_size, current_position..(p2 - 1))

ScanSwitchPdiStep(opaque_data, current_position) ==
    IF current_position + OPAQUE_DATA_FIELD_TYPE > Len(opaque_data) THEN Panic({})
    ELSE LET data_type == u16_from_le_bytes(At(opaque_data, current_position),
                                            At(opaque_data, current_position + 1))
             p1 == current_position + OPAQUE_DATA_FIELD_TYPE
         IN IF p1 + OPAQUE_DATA_FIELD_SIZE > Len(opaque_data)
            THEN Panic(current_position..(p1 - 1))
            ELSE LET data_size == u16_from_le_bytes(At(opaque_data, p1), At(opaque_data, p1 + 1))
                     p2 == p1 + OPAQUE_DATA_FIELD_SIZE
                 IN IF data_type = OPAQUE_FIELD_ID_SWITCH_PDI
                    THEN IF p2 + data_size > Len(opaque_data)
                         THEN Panic(current_position..(p2 - 1))
                         ELSE Ok(Slice(opaque_data, p2, p2 + data_size),
                                 current_position..(p2 + data_size - 1))
                    ELSE Cont(p2 + data_size, current_position..(p2 - 1))

RECURSIVE ScanSwitchPdiFrom(_, _, _)
ScanSwitchPdiFrom(opaque_data, current_position, rd) ==
    IF current_position < Len(opaque_data)
    THEN LET s == ScanSwitchPdiStep(opaque_data, current_position)
         IN IF s.kind = "continue"
            THEN ScanSwitchPdiFrom(opaque_data, s.val, rd \cup s.rd)
            ELSE [s EXCEPT !.rd = rd \cup s.rd]
    ELSE Err("NvSwitchPdisNotFound", rd)

extract_switch_gpu_pdis_in_opaque_data(opaque_data) == ScanSwitchPdiFrom(opaque_data, 0, {})

\* The while loop of extract_switch_pdis: consecutive 8-byte chunks.
ChunksButLast(bytes, n) ==
    [j \in 1..(n - 1) |-> Slice(bytes, (j - 1) * PDI_DATA_FIELD_SIZE, j * PDI_DATA_FIELD_SIZE)]
Chunks(bytes, n) ==
    [j \in 1..n |-> Slice(bytes, (j - 1) * PDI_DATA_FIELD_SIZE, j * PDI_DATA_FIELD_SIZE)]

extract_switch_pdis(switch_gpu_pdis) ==
    IF Len(switch_gpu_pdis) % PDI_DATA_FIELD_SIZE # 0
    THEN Err("InvalidSwitchPdisLength", {})
    ELSE Ok(Chunks(switch_gpu_pdis, Len(switch_gpu_pdis) \div PDI_DATA_FIELD_SIZE), {})

\* &report[LENGTH_OF_SPDM_GET_MEASUREMENT_REQUEST_MESSAGE..]
SpdmMeasurement(report) ==
    IF LENGTH_OF_SPDM_GET_MEASUREMENT_REQUEST_MESSAGE > Len(report)
    THEN Panic({})
    ELSE Ok(Slice(report, LENGTH_OF_SPDM_GET_MEASUREMENT_REQUEST_MESSAGE, Len(report)), {})

\* switch_pdis.rs lines 51-56, the chain of `?`, last step first: each step
\* is given the outcome of the one before and passes a failure on.
NeighborSplit(f) == IF f.kind # "ok" THEN f ELSE extract_switch_pdis(f.val)
NeighborScan(o) ==
    IF o.kind # "ok" THEN o ELSE NeighborSplit(extract_switch_gpu_pdis_in_opaque_data(o.val))
NeighborSlice(spdm_measurement, p) ==
    IF p.kind # "ok" THEN p
    ELSE NeighborScan(SliceOpaqueData(spdm_measurement, p.val[1], p.val[2]))
NeighborPosition(m) ==
    IF m.kind # "ok" THEN m ELSE NeighborSlice(m.val, compute_opaque_data_position(m.val))

\* switch_pdis.rs lines 39-57
extract_switch_pdis_in_gpu_attestation_report_data(report) ==
    IF ReportTooShort(report) THEN Err("InvalidReportLength", {})
    ELSE NeighborPosition(SpdmMeasurement(report))

\* ------------------------------------------------------------------------
\* nvidia-remote-attestation-gpu/src/device_pdis.rs: the attached parser
\* (a switch's report)

\* device_pdis.rs compute_opaque_data_position: the offset is advanced past the
\* 2-byte opaque-length field before the length is read, so the length comes
\* from the two bytes that follow the field.
device_compute_opaque_data_position(spdm_measurement) ==
    LET o0 == RecordLengthOffset
        c0 == check_spdm_measurement_length(spdm_measurement, o0)
    IN IF c0.kind = "err" THEN c0
       ELSE LET r0 == ReadRecordLength(spdm_measurement, o0)
            IN IF r0.kind = "panic" THEN r0
               ELSE LET o1 == o0 + MEASUREMENT_RECORD_LENGTH + r0.val + NONCE + OPAQUE_DATA
                        c1 == check_spdm_measurement_length(spdm_measurement, o1)
                    IN IF c1.kind = "err" THEN Err(c1.err, r0.rd)
                       ELSE LET r1 == ReadU16(spdm_measurement, o1)
                            IN IF r1.kind = "panic" THEN Panic(r0.rd \cup r1.rd)
                               ELSE Ok(<<o1, r1.val>>, r0.rd \cup r1.rd)

\* One iteration of the while loop of device_pdis.rs extract_switch_pdis,
\* entered with pos < opaque_data.len().  pos is advanced past the type field
\* but not past the size field; on a match it is advanced by data_size and the
\* own PDI is sliced from there.
ScanDevicePdiStep(opaque_data, pos) ==
    LET t == ReadU16(opaque_data, pos)
    IN IF t.kind = "panic" THEN t
       ELSE LET p1 == pos + OPAQUE_DATA_FIELD_TYPE
                z == ReadU16(opaque_data, p1)
            IN IF z.kind = "panic" THEN Panic(t.rd \cup z.rd)
               ELSE IF t.val = OPAQUE_FIELD_ID_DEVICE_PDI
                    THEN IF z.val # PDI_DATA_FIELD_SIZE
                         THEN Err("InvalidSwitchPdisLength", t.rd \cup z.rd)
                         ELSE LET p2 == p1 + z.val
                              IN IF p2 + z.val > Len(opaque_data)
                                 THEN Panic(t.rd \cup z.rd)
                                 ELSE Ok(<<Slice(opaque_data, p2, p2 + z.val), p2>>,
                                         t.rd \cup z.rd \cup (p2..(p2 + z.val - 1)))
                    ELSE Cont(p1 + z.val, t.rd \cup z.rd)

RECURSIVE ScanDevicePdiFrom(_, _, _)
ScanDevicePdiFrom(opaque_data, pos, rd) ==
    IF pos < Len(opaque_data)
    THEN LET s == ScanDevicePdiStep(opaque_data, pos)
         IN IF s.kind = "continue"
            THEN ScanDevicePdiFrom(opaque_data, s.val, rd \cup s.rd)
            ELSE [s EXCEPT !.rd = rd \cup s.rd]
    ELSE Err("SwitchPdisNotFound", rd)

\* device_pdis.rs extract_switch_pdis: Ok(<<own PDI, pos>>)
device_extract_switch_pdis(opaque_data) == ScanDevicePdiFrom(opaque_data, 0, {})

\* One iteration of the while loop of extract_switch_gpu_pdis, entered with
\* pos < opaque_data.len(): the value is sliced from the size field on.
ScanGpuPdisStep(opaque_data, pos) ==
    LET t == ReadU16(opaque_data, pos)
    IN IF t.kind = "panic" THEN t
       ELSE LET p1 == pos + OPAQUE_DATA_FIELD_TYPE
                z == ReadU16(opaque_data, p1)
            IN IF z.kind = "panic" THEN Panic(t.rd \cup z.rd)
               ELSE IF t.val = OPAQUE_FIELD_ID_SWITCH_GPU_PDIS
                    THEN IF p1 + z.val > Len(opaque_data)
                         THEN Panic(t.rd \cup z.rd)
                         ELSE Ok(Slice(opaque_data, p1, p1 + z.val),
                                 t.rd \cup z.rd \cup (p1..(p1 + z.val - 1)))
                    ELSE Cont(p1 + z.val, t.rd \cup z.rd)

RECURSIVE ScanGpuPdisFrom(_, _, _)
ScanGpuPdisFrom(opaque_data, pos, rd) ==
    IF pos < Len(opaque_data)
    THEN LET s == ScanGpuPdisStep(opaque_data, pos)
         IN IF s.kind = "continue"
            THEN ScanGpuPdisFrom(opaque_data, s.val, rd \cup s.rd)
            ELSE [s EXCEPT !.rd = rd \cup s.rd]
    ELSE Err("SwitchGpuPdisNotFound", rd)

extract_switch_gpu_pdis(opaque_data, pos) == ScanGpuPdisFrom(opaque_data, pos, {})

\* device_pdis.rs lines 95-97; Ok(<<switch_gpu_pdis bytes, own PDI>>)
DevicePdisAfterGpu(a, b) ==
    IF b.kind # "ok" THEN [b EXCEPT !.rd = a.rd \cup b.rd]
    ELSE Ok(<<b.val, a.val[1]>>, a.rd \cup b.rd)
DevicePdisAfterOwn(opaque_data, a) ==
    IF a.kind # "ok" THEN a
    ELSE DevicePdisAfterGpu(a, extract_switch_gpu_pdis(opaque_data, a.val[2]))
extract_switch_device_pdis_in_opaque_data(opaque_data) ==
    DevicePdisAfterOwn(opaque_data, device_extract_switch_pdis(opaque_data))

\* The first TOTAL_NUMBER_OF_PDIS chunks of the value; a longer value is cut.
extract_switch_device_gpu_pdis(switch_gpu_pdis) ==
    IF Len(switch_gpu_pdis) < TOTAL_NUMBER_OF_PDIS * PDI_DATA_FIELD_SIZE
    THEN Err("InvalidSwitchPdisLength", {})
    ELSE Ok(Chunks(switch_gpu_pdis, TOTAL_NUMBER_OF_PDIS), {})

\* SwitchDevicePdis { switch_device_gpu_pdis, switch_pdis }
MakeSwitchDevicePdis(g, own) ==
    IF g.kind # "ok" THEN g
    ELSE Ok([switch_device_gpu_pdis |-> g.val, switch_pdis |-> own], {})
SplitDevicePdis(found) ==
    MakeSwitchDevicePdis(extract_switch_device_gpu_pdis(found[1]), found[2])

\* device_pdis.rs lines 40-49, the chain of `?`, last step first
DeviceSplit(f) == IF f.kind # "ok" THEN f ELSE SplitDevicePdis(f.val)
DeviceScan(o) ==
    IF o.kind # "ok" THEN o ELSE DeviceSplit(extract_switch_device_pdis_in_opaque_data(o.val))
DeviceSlice(spdm_measurement, p) ==
    IF p.kind # "ok" THEN p
    ELSE DeviceScan(SliceOpaqueData(spdm_measurement, p.val[1], p.val[2]))
DevicePosition(m) ==
    IF m.kind # "ok" THEN m ELSE DeviceSlice(m.val, device_compute_opaque_data_position(m.val))

\* device_pdis.rs lines 28-50
extract_device_pdis_in_gpu_attestation_report_data(report) ==
    IF ReportTooShort(report) THEN Err("InvalidReportLength", {})
    ELSE DevicePosition(SpdmMeasurement(report))

\* ------------------------------------------------------------------------
\* Input reports.  A report is described by its shape, the layout the format
\* prescribes: 37 bytes of request message, version, response code, param1,
\* param2, number of blocks, the 3-byte record length, the record, the 32-byte
\* nonce, the 2-byte opaque length and the opaque block of TLV entries.  An
\* entry carries the PDIs named by pdis followed by the bytes extra, under a
\* declared length that may differ from the value's length; tail is bytes
\* that follow the last entry inside the block, olenDelta what the opaque
\* length field declares beyond the block's length, cut the number of bytes
\* missing from the end of the report.

MaxEntries == 2
MaxRecordLen == 1
MaxTail == 3
MaxDeviants == 2

DISABLED_PDI == [j \in 1..PDI_DATA_FIELD_SIZE |-> 0]

Pdi(i) == IF i = 0 THEN DISABLED_PDI ELSE [j \in 1..PDI_DATA_FIELD_SIZE |-> 16 * i + j]

RECURSIVE PdiBytes(_)
PdiBytes(ids) == IF ids = <<>> THEN <<>> ELSE Pdi(Head(ids)) \o PdiBytes(Tail(ids))

Fill(n, b) == [j \in 1..n |-> b]
Le16(n) == <<n % 256, (n \div 256) % 256>>
Le24(n) == <<n % 256, (n \div 256) % 256, (n \div 65536) % 256>>

Entry(t, d, ids, x) == [type |-> t, declared |-> d, pdis |-> ids, extra |-> x]
EntryValue(e) == PdiBytes(e.pdis) \o e.extra
EntryBytes(e) == Le16(e.type) \o Le16(e.declared) \o EntryValue(e)

RECURSIVE EntriesBytes(_)
EntriesBytes(es) == IF es = <<>> THEN <<>> ELSE EntryBytes(Head(es)) \o EntriesBytes(Tail(es))

Shape(m, es, t, d, c) == [mrl |-> m, entries |-> es, tail |-> t, olenDelta |-> d, cut |-> c]
BlockBytes(sh) == EntriesBytes(sh.entries) \o sh.tail
FullReport(sh) ==
    Fill(LENGTH_OF_SPDM_GET_MEASUREMENT_REQUEST_MESSAGE, 170)
        \o <<17, 96, 0, 0, 1>> \o Le24(sh.mrl) \o Fill(sh.mrl, 238) \o Fill(NONCE, 204)
        \o Le16(Len(BlockBytes(sh)) + sh.olenDelta) \o BlockBytes(sh)
BuildReport(sh) == SubSeq(FullReport(sh), 1, Len(FullReport(sh)) - sh.cut)

\* The offset of the opaque block in a report of this shape.
BlockOffset(sh) ==
    LENGTH_OF_SPDM_GET_MEASUREMENT_REQUEST_MESSAGE + RecordLengthOffset
        + MEASUREMENT_RECORD_LENGTH + sh.mrl + NONCE + OPAQUE_DATA

GpuIds == <<6, 7, 8, 9, 10, 11, 12, 13>>

EntryCatalog ==
    { Entry(22, 8, <<1>>, <<>>),
      Entry(22, 16, <<2, 3>>, <<>>),
      Entry(22, 0, <<>>, <<>>),
      Entry(22, 12, <<4>>, <<9, 9, 9, 9>>),
      Entry(22, 16, <<1>>, <<>>),
      Entry(26, 64, GpuIds, <<>>),
      Entry(26, 72, GpuIds, <<>>),
      Entry(7, 3, <<>>, <<1, 2, 3>>),
      Entry(7, 0, <<>>, <<>>),
      Entry(7, 9, <<>>, <<1, 2, 3>>) }

EntrySeqs == UNION {[1..n -> EntryCatalog] : n \in 0..MaxEntries}

TailPattern == <<22, 0, 8, 0, 1, 2, 3, 4>>

BlockShapes ==
    { Shape(m, es, SubSeq(TailPattern, 1, t), 0, 0) :
        m \in {0, MaxRecordLen}, es \in EntrySeqs, t \in 0..MaxTail }

BaseEntries == <<Entry(7, 3, <<>>, <<1, 2, 3>>), Entry(22, 16, <<2, 3>>, <<>>)>>

DeltaShapes == { Shape(0, BaseEntries, <<>>, d, 0) : d \in {-1, 1, 2} }

CutShapes == { Shape(0, BaseEntries, <<>>, 0, c) : c \in 1..Len(FullReport(Shape(0, BaseEntries, <<>>, 0, 0))) }

\* Blocks laid out the way device_pdis.rs reads them: the first two bytes are
\* taken both as the block's length and as the first entry's type; an entry
\* of type 22 and size 8 is followed, 8 bytes after its size field, by the own
\* PDI, whose first four bytes are read again as the type and the size of the
\* attached-PDIs entry; the attached value starts at that size field.
CraftedOwn(a) == <<26, 0, 64, 0, a, a, a, a>>
CraftedFirst(a) == <<64, 0, a, a, a, a, 5, 5>>
CraftedBlock(a, ids) ==
    <<80, 0, 2, 0, 22, 0, 8, 0>> \o Fill(6, 0) \o CraftedOwn(a) \o <<5, 5>> \o PdiBytes(ids)
CraftedShape(a, ids) == Shape(0, <<>>, CraftedBlock(a, ids), 0, 0)

CraftedGpuIds == <<7, 8, 9, 10, 11, 12, 13>>
\* The same layout with an attached value of 64 + Len(x) bytes, x following
\* the PDIs.
RaggedBlock(a, ids, x) ==
    <<80 + Len(x), 0, 2, 0, 22, 0, 8, 0>> \o Fill(6, 0) \o <<26, 0, 64 + Len(x), 0, a, a, a, a>>
        \o <<5, 5>> \o PdiBytes(ids) \o x
CraftedShapes ==
    { CraftedShape(a, ids) : a \in {1, 2},
                             ids \in {CraftedGpuIds, <<7, 8, 9, 10, 11, 12>>} }
    \cup { Shape(0, <<>>, RaggedBlock(1, CraftedGpuIds, x), 0, 0) :
             x \in {<<9, 9, 9>>, Pdi(14)} }

ParseShapes == BlockShapes \cup DeltaShapes \cup CutShapes \cup CraftedShapes

EntryWellFormed(e) == e.declared = Len(EntryValue(e))
WellFormed(sh) ==
    /\ sh.cut = 0 /\ sh.olenDelta = 0 /\ sh.tail = <<>>
    /\ \A i \in 1..Len(sh.entries) : EntryWellFormed(sh.entries[i])

\* ------------------------------------------------------------------------
\* State
VARIABLES
    shape,            \* the shape the report under parse was built from
    report,           \* the bytes handed to the parser
    parser,           \* "neighbor" (switch_pdis.rs) or "attached" (device_pdis.rs)
    pc,               \* the parser's position in its code
    opaque_pos,       \* <<opaque_data_start, opaque_data_length>>
    opaque_data,      \* the opaque block as sliced
    current_position, \* the scan position in opaque_data
    found,            \* what the scans have returned so far
    result,           \* the parser's outcome
    reads             \* offsets of report read so far

parseVars == <<shape, report, parser, pc, opaque_pos, opaque_data, current_position,
               found, result, reads>>

\* The topology checks (nvidia-remote-attestation-gpu/src/topology.rs)
VARIABLES
    checker,          \* "gpu" (gpu_topology_check) or "switch" (switch_topology_check)
    reports,          \* the shapes of the reports handed to the check, in order
    num_gpus,         \* switch_topology_check's num_gpus
    accepted_set,     \* switch_topology_check's unique_switch_pdis_set
    tpc,              \* the check's position in its code
    idx,              \* the report the loop is at (1-based)
    unique_set,       \* the Option holding the first report's set
    parsed,           \* how many reports have been handed to the parser
    tresult           \* the check's outcome

topoVars == <<checker, reports, num_gpus, accepted_set, tpc, idx, unique_set, parsed, tresult>>

\* The verification of the result token (remote-attestation/src/utils.rs)
VARIABLES
    verifier_url,     \* the verifier URL handed to decode_nras_token
    token,            \* the result token handed to decode_nras_token
    jwks_endpoint,    \* what a GET of the key-set endpoint yields
    vpc,              \* decode_nras_token's position in its code
    jwks_data,        \* the key set as fetched
    kid,              \* the kid of the token's header
    cert,             \* the certificate taken from the matching key
    verified_with,    \* the public key the token's signature was verified with
    vresult           \* decode_nras_token's outcome

tokenVars == <<verifier_url, token, jwks_endpoint, vpc, jwks_data, kid, cert,
               verified_with, vresult>>

\* The requests of decode_nras_token to the key-set endpoint
VARIABLES
    gets,             \* how many GETs have been issued
    get_timeout,      \* the timeout of the client that issued the GET, in seconds
    get_url           \* the URL the GET was issued to

netVars == <<gets, get_timeout, get_url>>

\* One round of submission to the verifier (verify_gpu_attestation,
\* verify_nvswitch_attestation, attest_remote)
VARIABLES
    api,              \* which of the three functions is called
    options,          \* the options (or optional arguments) of the call
    nonce,            \* the nonce of the call
    evidence_list,    \* the evidences of the call
    env_hold,         \* the value of NV_ALLOW_HOLD_CERT in the process environment
    verifier,         \* what the verifier answers to a POST
    spc,              \* the call's position in its code
    request,          \* the request as built
    posts,            \* how many POSTs have been issued
    response_json,    \* the response body as decoded
    sresult           \* the call's outcome

roundVars == <<api, options, nonce, evidence_list, env_hold, verifier, spc, request, posts,
               response_json, sresult>>

\* Concurrent calls and the process-wide cert-hold setting (utils.rs line 11)
VARIABLES
    CERT_HOLD_STATUS, \* the Option<bool> behind the Mutex
    calls,            \* per call: its arguments and the environment it runs in
    cpc,              \* per call: its position in its code
    sent              \* per call: the request it sent

holdVars == <<CERT_HOLD_STATUS, calls, cpc, sent>>

\* The NSCQ session (nscq/src/session.rs) and the library behind it
VARIABLES
    flags,            \* Session::new's flags
    uuids,            \* Session::new's uuids
    npc,              \* Session::new's position in its code, then the Session's life
    session,          \* the handle nscq_session_create returned, if any
    mounted,          \* how many of uuids the loop has mounted
    lib_created,      \* sessions the library has created
    lib_destroyed,    \* NSCQ_SESSION_DESTROY calls the library has received
    nresult           \* what Session::new returned

sessVars == <<flags, uuids, npc, session, mounted, lib_created, lib_destroyed, nresult>>

nonParseVars == <<sessVars, topoVars, tokenVars, netVars, roundVars, holdVars>>
nonTopoVars == <<sessVars, parseVars, tokenVars, netVars, roundVars, holdVars>>
nonTokenVars == <<sessVars, parseVars, topoVars, netVars, roundVars, holdVars>>
nonTokenNetVars == <<sessVars, parseVars, topoVars, roundVars, holdVars>>
nonSessVars == <<parseVars, topoVars, tokenVars, netVars, roundVars, holdVars>>


NoResult == [kind |-> "none", err |-> "none", val |-> <<>>]
Res(r) == [kind |-> r.kind, err |-> r.err, val |-> r.val]

ParseIdle ==
    /\ shape = Shape(0, <<>>, <<>>, 0, 0) /\ report = <<>> /\ parser = "none"
    /\ pc = "idle" /\ opaque_pos = <<0, 0>> /\ opaque_data = <<>>
    /\ current_position = 0 /\ found = <<>> /\ result = NoResult /\ reads = {}

InitParse ==
    /\ shape \in ParseShapes
    /\ report = BuildReport(shape)
    /\ parser \in {"neighbor", "attached"}
    /\ pc = "check_length"
    /\ opaque_pos = <<0, 0>> /\ opaque_data = <<>> /\ current_position = 0
    /\ found = <<>> /\ result = NoResult /\ reads = {}

Finish(r) ==
    /\ result' = Res(r)
    /\ pc' = "done"

\* lines 42-50 (switch_pdis.rs) / 31-39 (device_pdis.rs)
CheckLength ==
    /\ pc = "check_length"
    /\ UNCHANGED nonParseVars
    /\ IF ReportTooShort(report)
       THEN Finish(Err("InvalidReportLength", {}))
       ELSE pc' = "position" /\ UNCHANGED result
    /\ UNCHANGED <<shape, report, parser, opaque_pos, opaque_data, current_position,
                   found, reads>>

PositionOf(spdm_measurement) ==
    IF parser = "neighbor"
    THEN compute_opaque_data_position(spdm_measurement)
    ELSE device_compute_opaque_data_position(spdm_measurement)

\* let spdm_measurement = &report[37..]; compute_opaque_data_position(..)?
Position ==
    /\ pc = "position"
    /\ UNCHANGED nonParseVars
    /\ LET m == SpdmMeasurement(report)
       IN IF m.kind = "panic"
          THEN Finish(m) /\ UNCHANGED <<opaque_pos, reads>>
          ELSE LET p == PositionOf(m.val)
               IN /\ reads' = reads \cup Shift(p.rd, LENGTH_OF_SPDM_GET_MEASUREMENT_REQUEST_MESSAGE)
                  /\ IF p.kind = "ok"
                     THEN opaque_pos' = p.val /\ pc' = "slice" /\ UNCHANGED result
                     ELSE Finish(p) /\ UNCHANGED opaque_pos
    /\ UNCHANGED <<shape, report, parser, opaque_data, current_position, found>>

\* let opaque_data = &spdm_measurement[start..start + length];
SliceOpaque ==
    /\ pc = "slice"
    /\ UNCHANGED nonParseVars
    /\ LET o == SliceOpaqueData(SpdmMeasurement(report).val, opaque_pos[1], opaque_pos[2])
       IN IF o.kind = "ok"
          THEN /\ opaque_data' = o.val
               /\ pc' = IF parser = "neighbor" THEN "scan" ELSE "scan_own"
               /\ UNCHANGED result
          ELSE Finish(o) /\ UNCHANGED opaque_data
    /\ UNCHANGED <<shape, report, parser, opaque_pos, current_position, found, reads>>

OpaqueBase == LENGTH_OF_SPDM_GET_MEASUREMENT_REQUEST_MESSAGE + opaque_pos[1]

\* switch_pdis.rs extract_switch_gpu_pdis_in_opaque_data, one pass of the loop
ScanNeighbor ==
    /\ pc = "scan"
    /\ UNCHANGED nonParseVars
    /\ IF current_position < Len(opaque_data)
       THEN LET s == ScanSwitchPdiStep(opaque_data, current_position)
            IN /\ reads' = reads \cup Shift(s.rd, OpaqueBase)
               /\ CASE s.kind = "continue" ->
                        current_position' = s.val /\ UNCHANGED <<pc, found, result>>
                    [] s.kind = "ok" ->
                        found' = s.val /\ pc' = "split" /\ UNCHANGED <<current_position, result>>
                    [] OTHER ->
                        Finish(s) /\ UNCHANGED <<current_position, found>>
       ELSE /\ Finish(Err("NvSwitchPdisNotFound", {}))
            /\ UNCHANGED <<current_position, found, reads>>
    /\ UNCHANGED <<shape, report, parser, opaque_pos, opaque_data>>

\* device_pdis.rs extract_switch_pdis, one pass of the loop
ScanOwn ==
    /\ pc = "scan_own"
    /\ UNCHANGED nonParseVars
    /\ IF current_position < Len(opaque_data)
       THEN LET s == ScanDevicePdiStep(opaque_data, current_position)
            IN /\ reads' = reads \cup Shift(s.rd, OpaqueBase)
               /\ CASE s.kind = "continue" ->
                        current_position' = s.val /\ UNCHANGED <<pc, found, result>>
                    [] s.kind = "ok" ->
                        /\ found' = <<s.val[1]>>
                        /\ current_position' = s.val[2]
                        /\ pc' = "scan_gpu"
                        /\ UNCHANGED result
                    [] OTHER ->
                        Finish(s) /\ UNCHANGED <<current_position, found>>
       ELSE /\ Finish(Err("SwitchPdisNotFound", {}))
            /\ UNCHANGED <<current_position, found, reads>>
    /\ UNCHANGED <<shape, report, parser, opaque_pos, opaque_data>>

\* device_pdis.rs extract_switch_gpu_pdis, one pass of the loop
ScanGpu ==
    /\ pc = "scan_gpu"
    /\ UNCHANGED nonParseVars
    /\ IF current_position < Len(opaque_data)
       THEN LET s == ScanGpuPdisStep(opaque_data, current_position)
            IN /\ reads' = reads \cup Shift(s.rd, OpaqueBase)
               /\ CASE s.kind = "continue" ->
                        current_position' = s.val /\ UNCHANGED <<pc, found, result>>
                    [] s.kind = "ok" ->
                        /\ found' = <<s.val, found[1]>>
                        /\ pc' = "split_device"
                        /\ UNCHANGED <<current_position, result>>
                    [] OTHER ->
                        Finish(s) /\ UNCHANGED <<current_position, found>>
       ELSE /\ Finish(Err("SwitchGpuPdisNotFound", {}))
            /\ UNCHANGED <<current_position, found, reads>>
    /\ UNCHANGED <<shape, report, parser, opaque_pos, opaque_data>>

\* switch_pdis.rs extract_switch_pdis
SplitNeighbor ==
    /\ pc = "split"
    /\ UNCHANGED nonParseVars
    /\ Finish(extract_switch_pdis(found))
    /\ UNCHANGED <<shape, report, parser, opaque_pos, opaque_data, current_position,
                   found, reads>>

\* device_pdis.rs extract_switch_device_gpu_pdis and the SwitchDevicePdis value
SplitDevice ==
    /\ pc = "split_device"
    /\ UNCHANGED nonParseVars
    /\ Finish(SplitDevicePdis(found))
    /\ UNCHANGED <<shape, report, parser, opaque_pos, opaque_data, current_position,
                   found, reads>>

\* The whole parser, as the topology checks call it.
ParseWhole(r) ==
    IF parser = "neighbor"
    THEN extract_switch_pdis_in_gpu_attestation_report_data(r)
    ELSE extract_device_pdis_in_gpu_attestation_report_data(r)

\* The stepwise parser ends with the outcome of the whole parser.
StepwiseAgrees == pc = "done" => result = Res(ParseWhole(report))

\* ------------------------------------------------------------------------
\* nvidia-remote-attestation-gpu/src/topology.rs

None == [some |-> FALSE, set |-> {}]
Some(S) == [some |-> TRUE, set |-> S]

TRes(k, e, v, x, a) == [kind |-> k, err |-> e, val |-> v, expected |-> x, actual |-> a]
NoTRes == TRes("none", "none", {}, {}, {})
TOk(v) == TRes("ok", "none", v, {}, {})
TErr(e) == TRes("err", e, {}, {}, {})
TMismatchSwapped(e, x, a) == TRes("err", e, {}, a, x)
TMismatch(e, x, a) == TRes("err", e, {}, x, a)
TPanic == TRes("panic", "none", {}, {}, {})

\* HashSet::from_iter
ToSet(q) == {q[i] : i \in 1..Len(q)}

\* Device reports: one other entry, then the neighbor-PDIs entry.
NeighborShape(ids) ==
    Shape(0, <<Entry(7, 3, <<>>, <<1, 2, 3>>),
               Entry(22, PDI_DATA_FIELD_SIZE * Len(ids), ids, <<>>)>>, <<>>, 0, 0)
ShortShape == Shape(0, <<>>, <<>>, 0, 60)
OverlongShape == Shape(0, <<Entry(22, 16, <<1>>, <<>>)>>, <<>>, 0, 0)

GpuKinds ==
    { NeighborShape(<<1, 2, 3, 4, 0>>),
      NeighborShape(<<4, 0, 3, 2, 1, 1>>),
      NeighborShape(<<1, 2, 3, 5>>),
      NeighborShape(<<0, 1, 2, 4, 5>>),
      NeighborShape(<<1, 2, 3, 0>>),
      NeighborShape(<<1, 2, 3, 4, 5>>),
      ShortShape,
      OverlongShape }

\* Switch reports: the own-PDI entry and the attached-PDIs entry.
SwitchShape(own, ids) ==
    Shape(0, <<Entry(22, PDI_DATA_FIELD_SIZE, <<own>>, <<>>),
               Entry(26, PDI_DATA_FIELD_SIZE * Len(ids), ids, <<>>)>>, <<>>, 0, 0)

SwitchKinds ==
    { SwitchShape(1, GpuIds),
      SwitchShape(2, GpuIds),
      SwitchShape(5, GpuIds),
      CraftedShape(1, CraftedGpuIds),
      CraftedShape(2, CraftedGpuIds),
      CraftedShape(5, CraftedGpuIds),
      CraftedShape(1, <<7, 8, 9, 10, 11, 12, 14>>),
      CraftedShape(2, <<7, 8, 9, 10, 11, 12, 0>>),
      CraftedShape(1, <<7, 8, 9, 10, 11, 12, 12>>),
      ShortShape }

AcceptedSets == { {Pdi(1), Pdi(2), CraftedOwn(1), CraftedOwn(2)} }

\* Lists of n reports: all of kind b, but for those at the positions D, which
\* are of the kinds d gives them; at most MaxDeviants positions deviate.
\* A list of a length the check rejects is of one kind throughout.
DeviantSets(n) ==
    IF n \in {NUMBER_OF_GPU_TOPOLOGY_CHECK_REPORTS, NUMBER_OF_SWITCH_ATTESTATION_REPORTS}
    THEN {D \in SUBSET (1..n) : Cardinality(D) <= MaxDeviants}
    ELSE {{}}
ReportList(n, b, D, d) == [i \in 1..n |-> IF i \in D THEN d[i] ELSE b]

GpuReportCounts ==
    {0, NUMBER_OF_GPU_TOPOLOGY_CHECK_REPORTS - 1, NUMBER_OF_GPU_TOPOLOGY_CHECK_REPORTS,
     NUMBER_OF_GPU_TOPOLOGY_CHECK_REPORTS + 1}
SwitchReportCounts ==
    {NUMBER_OF_SWITCH_ATTESTATION_REPORTS - 1, NUMBER_OF_SWITCH_ATTESTATION_REPORTS,
     NUMBER_OF_SWITCH_ATTESTATION_REPORTS + 1}

TopoIdle ==
    /\ checker = "none" /\ reports = <<>> /\ num_gpus = 0 /\ accepted_set = {}
    /\ tpc = "idle" /\ idx = 0 /\ unique_set = None /\ parsed = 0 /\ tresult = NoTRes

InitTopo ==
    /\ \/ /\ checker = "gpu"
          /\ \E n \in GpuReportCounts, b \in GpuKinds :
                \E D \in DeviantSets(n) :
                   \E d \in [D -> GpuKinds] : reports = ReportList(n, b, D, d)
          /\ num_gpus = 0 /\ accepted_set = {}
       \/ /\ checker = "switch"
          /\ \E n \in SwitchReportCounts, b \in SwitchKinds :
                \E D \in DeviantSets(n) :
                   \E d \in [D -> SwitchKinds] : reports = ReportList(n, b, D, d)
          /\ num_gpus \in {TOTAL_NUMBER_OF_PDIS - 1, TOTAL_NUMBER_OF_PDIS}
          /\ accepted_set \in AcceptedSets
    /\ tpc = "check_count" /\ idx = 1 /\ unique_set = None /\ parsed = 0 /\ tresult = NoTRes

TFinish(r) ==
    /\ tresult' = r
    /\ tpc' = "done"

\* gpu_attestation_reports.len() != NUMBER_OF_GPU_TOPOLOGY_CHECK_REPORTS
WrongGpuReportCountBelow(n) == n < NUMBER_OF_GPU_TOPOLOGY_CHECK_REPORTS
WrongGpuReportCount(n) == n # NUMBER_OF_GPU_TOPOLOGY_CHECK_REPORTS

\* topology.rs lines 62-75
GpuCheckCount ==
    /\ checker = "gpu" /\ tpc = "check_count"
    /\ UNCHANGED nonTopoVars
    /\ IF WrongGpuReportCount(Len(reports))
       THEN TFinish(TErr("InvalidGpuAttestationReportsLength"))
       ELSE tpc' = "loop" /\ UNCHANGED tresult
    /\ UNCHANGED <<checker, reports, num_gpus, accepted_set, idx, unique_set, parsed>>

\* switch_pdis_set after remove(DISABLED_PDI)
EnabledSetKeepDisabled(pdis) == ToSet(pdis)
\* The set of the first four PDIs of the list only.
EnabledSetOfFirstFour(pdis) ==
    ToSet(SubSeq(pdis, 1, IF Len(pdis) < 4 THEN Len(pdis) ELSE 4)) \ {DISABLED_PDI}
EnabledSet(pdis) == ToSet(pdis) \ {DISABLED_PDI}

\* topology.rs lines 89-122: what the loop body does with the parser's outcome
GpuAfterParse(r) ==
    CASE r.kind = "panic" -> TFinish(TPanic) /\ UNCHANGED <<idx, unique_set>>
      [] r.kind = "err" -> TFinish(TErr(r.err)) /\ UNCHANGED <<idx, unique_set>>
      [] OTHER ->
           LET switch_pdis_set == EnabledSet(r.val)
           IN IF Cardinality(switch_pdis_set) # NUMBER_OF_SWITCH_PDIS
              THEN TFinish(TErr("InvalidSwitchPdisLength")) /\ UNCHANGED <<idx, unique_set>>
              ELSE IF unique_set.some
                   THEN IF unique_set.set # switch_pdis_set
                        THEN /\ TFinish(TMismatch("InvalidSwitchPdisTopology",
                                                  unique_set.set, switch_pdis_set))
                             /\ UNCHANGED <<idx, unique_set>>
                        ELSE idx' = idx + 1 /\ UNCHANGED <<unique_set, tpc, tresult>>
                   ELSE /\ unique_set' = Some(switch_pdis_set)
                        /\ idx' = idx + 1
                        /\ UNCHANGED <<tpc, tresult>>

\* topology.rs lines 77-123: the body of the for loop, on report idx
GpuCheckReport ==
    /\ checker = "gpu" /\ tpc = "loop" /\ idx <= Len(reports)
    /\ UNCHANGED nonTopoVars
    /\ parsed' = parsed + 1
    /\ GpuAfterParse(extract_switch_pdis_in_gpu_attestation_report_data(BuildReport(reports[idx])))
    /\ UNCHANGED <<checker, reports, num_gpus, accepted_set>>

\* topology.rs line 125: Ok(unique_switch_pdis_set.expect(..))
GpuReturn ==
    /\ checker = "gpu" /\ tpc = "loop" /\ idx > Len(reports)
    /\ UNCHANGED nonTopoVars
    /\ TFinish(IF unique_set.some THEN TOk(unique_set.set) ELSE TPanic)
    /\ UNCHANGED <<checker, reports, num_gpus, accepted_set, idx, unique_set, parsed>>

\* topology.rs lines 134-147
SwitchCheckCount ==
    /\ checker = "switch" /\ tpc = "check_count"
    /\ UNCHANGED nonTopoVars
    /\ IF Len(reports) # NUMBER_OF_SWITCH_ATTESTATION_REPORTS
       THEN TFinish(TErr("InvalidSwitchAttestationReportsLength"))
       ELSE tpc' = "loop" /\ UNCHANGED tresult
    /\ UNCHANGED <<checker, reports, num_gpus, accepted_set, idx, unique_set, parsed>>

\* topology.rs lines 163-206: what the loop body does with the parser's outcome
SwitchAfterParse(r) ==
    CASE r.kind = "panic" -> TFinish(TPanic) /\ UNCHANGED <<idx, unique_set>>
      [] r.kind = "err" -> TFinish(TErr(r.err)) /\ UNCHANGED <<idx, unique_set>>
      [] OTHER ->
           LET switch_device_gpu_pdis_set == ToSet(r.val.switch_device_gpu_pdis)
           IN IF r.val.switch_pdis \notin accepted_set
              THEN TFinish(TErr("SwitchPdisNotFound")) /\ UNCHANGED <<idx, unique_set>>
              ELSE IF Cardinality(switch_device_gpu_pdis_set) # num_gpus
              THEN /\ TFinish(TErr("InvalidSwitchDeviceGpuPdisLength"))
                   /\ UNCHANGED <<idx, unique_set>>
              ELSE IF unique_set.some
                   THEN IF unique_set.set # switch_device_gpu_pdis_set
                        THEN /\ TFinish(TMismatch("InvalidSwitchDeviceGpuPdisTopology",
                                                  unique_set.set, switch_device_gpu_pdis_set))
                             /\ UNCHANGED <<idx, unique_set>>
                        ELSE idx' = idx + 1 /\ UNCHANGED <<unique_set, tpc, tresult>>
                   ELSE /\ unique_set' = Some(switch_device_gpu_pdis_set)
                        /\ idx' = idx + 1
                        /\ UNCHANGED <<tpc, tresult>>

\* topology.rs lines 149-207: the body of the for loop, on report idx
SwitchCheckReport ==
    /\ checker = "switch" /\ tpc = "loop" /\ idx <= Len(reports)
    /\ UNCHANGED nonTopoVars
    /\ parsed' = parsed + 1
    /\ SwitchAfterParse(extract_device_pdis_in_gpu_attestation_report_data(BuildReport(reports[idx])))
    /\ UNCHANGED <<checker, reports, num_gpus, accepted_set>>

\* topology.rs line 208: Ok(())
SwitchReturn ==
    /\ checker = "switch" /\ tpc = "loop" /\ idx > Len(reports)
    /\ UNCHANGED nonTopoVars
    /\ TFinish(TOk({}))
    /\ UNCHANGED <<checker, reports, num_gpus, accepted_set, idx, unique_set, parsed>>

\* ------------------------------------------------------------------------
\* ------------------------------------------------------------------------
\* remote-attestation/src/utils.rs, mod nras_token
\*
\* A token is described by what decides its verification: whether its header
\* decodes, the header's kid and alg, the private key that signed it, and its
\* claims ("bad": not of the NvidiaAttestationClaims schema, otherwise the
\* value of x-nvidia-overall-att-result).  A certificate string is described by
\* whether it is base64, whether the decoded bytes are a DER certificate, and
\* the public key the certificate carries.

MaxKeys == 2

VResult(k, e, v) == [kind |-> k, err |-> e, val |-> v]
NoVResult == VResult("none", "none", "none")
VErr(e) == VResult("err", e, "none")
VOk(v) == VResult("ok", "none", v)

Token(h, k, a, sk, c) == [header |-> h, kid |-> k, alg |-> a, signer |-> sk, claims |-> c]
Tokens ==
    { Token(h, k, a, sk, c) :
        h \in {"ok"}, k \in {"none", "k1", "k2"}, a \in {"ES384", "ES256"},
        sk \in {"K1", "K2"}, c \in {"bad", "true", "false"} }
    \cup { Token("bad", "none", "ES384", "K1", "true") }

Cert(s, b, d, pk) == [str |-> s, b64 |-> b, der |-> d, key |-> pk]
GoodCert(pk) == Cert(TRUE, TRUE, TRUE, pk)
NoCert == Cert(FALSE, FALSE, FALSE, "none")

\* A key of the key set: its kid ("none": absent or no string) and its x5c
\* (hasX5c FALSE: absent or no array).
Jwk(k, has, certs) == [kid |-> k, hasX5c |-> has, x5c |-> certs]
JwkCatalog ==
    { Jwk("k1", TRUE, <<GoodCert("K1")>>),
      Jwk("k1", TRUE, <<GoodCert("K2")>>),
      Jwk("k1", TRUE, <<GoodCert("K3")>>),
      Jwk("k2", TRUE, <<GoodCert("K2"), GoodCert("K1")>>),
      Jwk("k2", TRUE, <<Cert(TRUE, FALSE, FALSE, "K2"), GoodCert("K2")>>),
      Jwk("k1", TRUE, <<Cert(TRUE, TRUE, FALSE, "K1")>>),
      Jwk("k1", TRUE, <<Cert(FALSE, TRUE, TRUE, "K1"), GoodCert("K1")>>),
      Jwk("k1", TRUE, <<>>),
      Jwk("k1", FALSE, <<>>),
      Jwk("none", TRUE, <<GoodCert("K1")>>) }

\* What the GET yields: a send failure, a body that is no JSON, or a JSON
\* value with or without a "keys" array.
Endpoint(s, j, has, ks) == [send |-> s, json |-> j, hasKeys |-> has, keys |-> ks]
Endpoints ==
    { Endpoint(TRUE, TRUE, TRUE, ks) : ks \in UNION {[1..n -> JwkCatalog] : n \in 0..MaxKeys} }
    \cup { Endpoint(FALSE, FALSE, FALSE, <<>>), Endpoint(TRUE, FALSE, FALSE, <<>>),
           Endpoint(TRUE, TRUE, FALSE, <<>>) }

\* A verifier URL: whether Url::parse accepts it, and what it names: scheme(),
\* host_str(), port() as ":p" or empty, and the rest (path, query, fragment).
Url(ok, sch, h, prt, pth) == [parses |-> ok, scheme |-> sch, host |-> h, port |-> prt, path |-> pth]
VerifierUrls ==
    { Url(TRUE, "https", "nras.attestation.nvidia.com", "", "/v3/attest/gpu"),
      Url(TRUE, "https", "nras.attestation.nvidia.com", "", "/v3/attest/switch?v=2#top"),
      Url(TRUE, "http", "localhost", ":8080", "/attest"),
      Url(FALSE, "", "", "", "") }

\* utils.rs lines 177-192
CreateJwksUrlNoPort(url) ==
    IF ~url.parses THEN VErr("UrlParseError")
    ELSE VOk([scheme |-> url.scheme, host |-> url.host, port |-> "",
              path |-> "/.well-known/jwks.json"])
create_jwks_url(url) ==
    IF ~url.parses THEN VErr("UrlParseError")
    ELSE VOk([scheme |-> url.scheme, host |-> url.host, port |-> url.port,
              path |-> "/.well-known/jwks.json"])

\* The index of the key get_matching_key returns, 0 for None: the first key
\* of the "keys" array whose kid is the string given (utils.rs lines 205-218).
MatchingKeyLast(jwks, k) ==
    IF ~jwks.hasKeys THEN 0
    ELSE LET hits == {i \in 1..Len(jwks.keys) : jwks.keys[i].kid = k}
         IN IF hits = {} THEN 0 ELSE CHOOSE i \in hits : \A j \in hits : j <= i
MatchingKeyOrFirst(jwks, k) ==
    IF ~jwks.hasKeys \/ jwks.keys = <<>> THEN 0
    ELSE LET hits == {i \in 1..Len(jwks.keys) : jwks.keys[i].kid = k}
         IN IF hits = {} THEN 1 ELSE CHOOSE i \in hits : \A j \in hits : i <= j
get_matching_key(jwks, k) ==
    IF ~jwks.hasKeys THEN 0
    ELSE LET hits == {i \in 1..Len(jwks.keys) : jwks.keys[i].kid = k}
         IN IF hits = {} THEN 0 ELSE CHOOSE i \in hits : \A j \in hits : i <= j

\* jsonwebtoken::decode::<NvidiaAttestationClaims>(token, key, Validation::new(ES384))
\* as called at utils.rs line 252: the header's alg must be ES384, the
\* signature must verify under the key, the claims must deserialize.
JwtDecode(t, pk) ==
    IF t.alg # "ES384" \/ t.signer # pk \/ t.claims = "bad" THEN VErr("HeaderDecodeError")
    ELSE VOk([overall_attestation_result |-> (t.claims = "true")])

\* utils.rs lines 231-255
decode_jwt_token(t, c) ==
    IF ~c.der THEN VErr("CertificateParseError") ELSE JwtDecode(t, c.key)

TokenIdle ==
    /\ verifier_url = Url(FALSE, "", "", "", "") /\ token = Token("bad", "none", "ES384", "K1", "true")
    /\ jwks_endpoint = Endpoint(FALSE, FALSE, FALSE, <<>>) /\ vpc = "idle"
    /\ jwks_data = Endpoint(FALSE, FALSE, FALSE, <<>>) /\ kid = "none" /\ cert = NoCert
    /\ verified_with = "none" /\ vresult = NoVResult

InitToken ==
    /\ verifier_url \in VerifierUrls
    /\ token \in Tokens
    /\ jwks_endpoint \in Endpoints
    /\ vpc = "jwks_url"
    /\ jwks_data = Endpoint(FALSE, FALSE, FALSE, <<>>) /\ kid = "none" /\ cert = NoCert
    /\ verified_with = "none" /\ vresult = NoVResult

VFinish(r) ==
    /\ vresult' = r
    /\ vpc' = "done"

\* constants.rs: DEFAULT_TIMEOUT, in seconds
DEFAULT_TIMEOUT == 30

NoJwksUrl == [scheme |-> "", host |-> "", port |-> "", path |-> ""]
NetIdle == gets = 0 /\ get_timeout = 0 /\ get_url = NoJwksUrl

\* utils.rs line 144
CreateJwksUrl ==
    /\ vpc = "jwks_url"
    /\ UNCHANGED nonTokenVars
    /\ IF create_jwks_url(verifier_url).kind = "err"
       THEN VFinish(create_jwks_url(verifier_url))
       ELSE vpc' = "fetch" /\ UNCHANGED vresult
    /\ UNCHANGED <<verifier_url, token, jwks_endpoint, jwks_data, kid, cert, verified_with>>

\* utils.rs lines 145-146: client.get(&jwks_url).send().await?.json().await?
FetchJwks ==
    /\ vpc = "fetch"
    /\ UNCHANGED nonTokenNetVars
    /\ gets' = gets + 1
    /\ get_timeout' = DEFAULT_TIMEOUT
    /\ get_url' = create_jwks_url(verifier_url).val
    /\ IF ~jwks_endpoint.send \/ ~jwks_endpoint.json
       THEN VFinish(VErr("ParseResponseError")) /\ UNCHANGED jwks_data
       ELSE jwks_data' = jwks_endpoint /\ vpc' = "header" /\ UNCHANGED vresult
    /\ UNCHANGED <<verifier_url, token, jwks_endpoint, kid, cert, verified_with>>

\* utils.rs lines 147-150: decode_header(token)? and header.kid.ok_or_else(..)?
DecodeHeader ==
    /\ vpc = "header"
    /\ UNCHANGED nonTokenVars
    /\ IF token.header # "ok"
       THEN VFinish(VErr("HeaderDecodeError")) /\ UNCHANGED kid
       ELSE IF token.kid = "none"
            THEN VFinish(VErr("InvalidJwtToken")) /\ UNCHANGED kid
            ELSE kid' = token.kid /\ vpc' = "match" /\ UNCHANGED vresult
    /\ UNCHANGED <<verifier_url, token, jwks_endpoint, jwks_data, cert, verified_with>>

\* x5c.get(0).and_then(|c| c.as_str())
FirstCert(key) == key.x5c[1]

\* utils.rs lines 151-162: the matching key, its x5c array, its first certificate
MatchKey ==
    /\ vpc = "match"
    /\ UNCHANGED nonTokenVars
    /\ LET i == get_matching_key(jwks_data, kid)
       IN IF i = 0
          THEN VFinish(VErr("InvalidJwtToken")) /\ UNCHANGED cert
          ELSE IF ~jwks_data.keys[i].hasX5c
               THEN VFinish(VErr("InvalidJwtToken")) /\ UNCHANGED cert
               ELSE IF jwks_data.keys[i].x5c = <<>> \/ ~FirstCert(jwks_data.keys[i]).str
                    THEN VFinish(VErr("InvalidJwtToken")) /\ UNCHANGED cert
                    ELSE /\ cert' = FirstCert(jwks_data.keys[i])
                         /\ vpc' = "b64"
                         /\ UNCHANGED vresult
    /\ UNCHANGED <<verifier_url, token, jwks_endpoint, jwks_data, kid, verified_with>>

\* utils.rs line 163: STANDARD.decode(cert_b64)?
DecodeCert ==
    /\ vpc = "b64"
    /\ UNCHANGED nonTokenVars
    /\ IF ~cert.b64
       THEN VFinish(VErr("CertificateDecodeError"))
       ELSE vpc' = "decode_jwt" /\ UNCHANGED vresult
    /\ UNCHANGED <<verifier_url, token, jwks_endpoint, jwks_data, kid, cert, verified_with>>

\* utils.rs line 164: decode_jwt_token(&token, &cert_der)
DecodeJwt ==
    /\ vpc = "decode_jwt"
    /\ UNCHANGED nonTokenVars
    /\ VFinish(decode_jwt_token(token, cert))
    /\ verified_with' = IF cert.der /\ token.alg = "ES384" THEN cert.key ELSE verified_with
    /\ UNCHANGED <<verifier_url, token, jwks_endpoint, jwks_data, kid, cert>>

\* ------------------------------------------------------------------------
\* Submission to the verifier
\* (remote-attestation-verifier/src/remote_gpu_attestation.rs,
\*  remote_nvswitch_attestation.rs, remote-attestation/src/attest_remote.rs)

\* Option<T>: <<>> is None, <<v>> is Some(v).
NoneOpt == <<>>
SomeOpt(v) == <<v>>
unwrap_or(o, d) == IF o = <<>> THEN d ELSE o[1]

\* A serde_json::Value: its type, the string it is (a result token, when a
\* string) and its items (when an array).
NoToken == Token("bad", "none", "ES384", "K1", "true")
Json(t, s, a) == [t |-> t, s |-> s, a |-> a]
JNull == Json("null", NoToken, <<>>)
JBool == Json("bool", NoToken, <<>>)
JObject == Json("obj", NoToken, <<>>)
JString(tok) == Json("str", tok, <<>>)
JArray(items) == Json("arr", NoToken, items)

\* The outcome of a call: Ok((passed, raw_response)) or Err(e); a
\* ResponseError carries the body of the response.
SRes(k, e, m, b, raw) == [kind |-> k, err |-> e, msg |-> m, passed |-> b, raw |-> raw]
NoSRes == SRes("none", "none", "", FALSE, JNull)
SErr(e) == SRes("err", e, "", FALSE, JNull)
SResponseError(m) == SRes("err", "ResponseError", m, FALSE, JNull)
SOk(b, raw) == SRes("ok", "none", "", b, raw)

\* utils.rs lines 34-40
get_allow_hold_cert(status, env) ==
    IF status # NoneOpt THEN status[1] ELSE env = "true"

\* utils.rs lines 52-71: Value::get(0) is Some for an array with an element
\* 0 only; as_array and as_str are Some for an array and a string only.
ClaimsTokenOfFirst(v) ==
    IF v.t # "arr" \/ Len(v.a) < 1 THEN VErr("JsonError")
    ELSE IF v.a[1].t # "arr" THEN VErr("JsonError")
    ELSE IF Len(v.a[1].a) < 1 \/ v.a[1].a[1].t # "str" THEN VErr("JsonError")
    ELSE VOk(v.a[1].a[1].s)
get_overall_claims_token(v) ==
    IF v.t # "arr" \/ Len(v.a) < 1 THEN VErr("JsonError")
    ELSE IF v.a[1].t # "arr" THEN VErr("JsonError")
    ELSE IF Len(v.a[1].a) < 2 \/ v.a[1].a[2].t # "str" THEN VErr("JsonError")
    ELSE VOk(v.a[1].a[2].s)

\* constants.rs
REMOTE_GPU_VERIFIER_SERVICE_URL ==
    Url(TRUE, "https", "nras.attestation.nvidia.com", "", "/v3/attest/gpu")
REMOTE_NVSWITCH_VERIFIER_SERVICE_URL ==
    Url(TRUE, "https", "nras.attestation.nvidia.com", "", "/v3/attest/switch")
DEFAULT_CLAIMS_VERSION == "2.0"
HOPPER_ARCH == "HOPPER"
LS10_ARCH == "LS10"

\* The three functions differ in the default URL, in the arch of the payload
\* and in that attest_remote takes no service key and no claims version.
Apis == {"verify_gpu_attestation", "verify_nvswitch_attestation", "attest_remote"}
DefaultUrl(f) ==
    IF f = "verify_nvswitch_attestation" THEN REMOTE_NVSWITCH_VERIFIER_SERVICE_URL
    ELSE REMOTE_GPU_VERIFIER_SERVICE_URL
Arch(f) == IF f = "verify_nvswitch_attestation" THEN LS10_ARCH ELSE HOPPER_ARCH

\* HeaderValue::from_str: every byte is a tab or is visible (32..255 but 127).
ValidHeaderValue(bytes) ==
    \A i \in 1..Len(bytes) : bytes[i] = 9 \/ (bytes[i] >= 32 /\ bytes[i] # 127)

Options(u, h, c, k, t) ==
    [verifier_url |-> u, allow_hold_cert |-> h, claims_version |-> c, service_key |-> k,
     timeout |-> t]

\* remote_gpu_attestation.rs lines 101-111: the header map
Headers(f, allow_hold_cert, service_key) ==
    [content_type |-> "application/json",
     cert_hold |-> allow_hold_cert,
     authorization |-> IF f = "attest_remote" THEN NoneOpt ELSE service_key]

\* remote_gpu_attestation.rs lines 112-118
Payload(f, n, ev, claims_version) ==
    [nonce |-> n, evidence_list |-> ev,
     claims_version |-> IF f = "attest_remote" THEN NoneOpt
                        ELSE SomeOpt(unwrap_or(claims_version, DEFAULT_CLAIMS_VERSION)),
     arch |-> Arch(f)]

\* The request of a call: where it goes, what it carries and the timeout of
\* the client that sends it (remote_gpu_attestation.rs lines 99-129).
Request(u, h, p, t) == [url |-> u, headers |-> h, payload |-> p, timeout |-> t]
NoRequest ==
    Request(Url(FALSE, "", "", "", ""), Headers("attest_remote", FALSE, NoneOpt),
            Payload("attest_remote", "", <<>>, NoneOpt), 0)
BuildRequest(f, n, ev, o, status, env) ==
    Request(unwrap_or(o.verifier_url, DefaultUrl(f)),
            Headers(f, unwrap_or(o.allow_hold_cert, get_allow_hold_cert(status, env)),
                    o.service_key),
            Payload(f, n, ev, o.claims_version),
            unwrap_or(o.timeout, DEFAULT_TIMEOUT))

\* What the verifier does with a POST: whether the request gets an answer at
\* all (no connection failure, no timeout), whether the status is a success,
\* whether the body arrives whole, and the body: its text and, when it is
\* JSON, its value.
Answer(snd, ok, whole, isJson, txt, v) ==
    [send |-> snd, success |-> ok, readable |-> whole, isJson |-> isJson, text |-> txt,
     json |-> v]

MaxItems == 2

GoodToken == Token("ok", "k1", "ES384", "K1", "true")
GoodEndpoint == Endpoint(TRUE, TRUE, TRUE, <<Jwk("k1", TRUE, <<GoodCert("K1")>>)>>)
JsonLeaves == {JNull, JBool, JObject, JString(GoodToken), JString(NoToken)}
JsonInner == {JArray(a) : a \in UNION {[1..n -> JsonLeaves] : n \in 0..MaxItems}}
JsonShapes ==
    JsonLeaves
    \cup {JArray(<<>>)}
    \cup {JArray(<<x>>) : x \in JsonLeaves \cup JsonInner}
    \cup {JArray(<<x, JNull>>) : x \in JsonInner}
TokenResponse(tok) == JArray(<<JArray(<<JObject, JString(tok)>>), JObject>>)

GoodAnswer(v) == Answer(TRUE, TRUE, TRUE, TRUE, "body", v)
AnswerKinds ==
    { Answer(FALSE, FALSE, FALSE, FALSE, "", JNull),
      Answer(TRUE, FALSE, TRUE, FALSE, "denied", JNull),
      Answer(TRUE, FALSE, TRUE, TRUE, "body", TokenResponse(GoodToken)),
      Answer(TRUE, FALSE, FALSE, FALSE, "", JNull),
      Answer(TRUE, TRUE, TRUE, FALSE, "<html>", JNull),
      Answer(TRUE, TRUE, FALSE, TRUE, "body", TokenResponse(GoodToken)),
      GoodAnswer(TokenResponse(GoodToken)),
      GoodAnswer(TokenResponse(Token("ok", "k1", "ES384", "K1", "false"))) }

CustomUrl == Url(TRUE, "http", "localhost", ":8080", "/attest")
OptionValues(f) ==
    { Options(u, h, c, k, t) :
        u \in {NoneOpt, SomeOpt(CustomUrl), SomeOpt(Url(FALSE, "", "", "", ""))},
        h \in {NoneOpt, SomeOpt(TRUE), SomeOpt(FALSE)},
        c \in IF f = "attest_remote" THEN {NoneOpt} ELSE {NoneOpt, SomeOpt("3.0")},
        k \in IF f = "attest_remote" THEN {NoneOpt}
              ELSE {NoneOpt, SomeOpt(<<107, 101, 121>>), SomeOpt(<<107, 10, 121>>)},
        t \in {NoneOpt, SomeOpt(5)} }
PlainOptions ==
    { Options(u, NoneOpt, NoneOpt, NoneOpt, t) :
        u \in {NoneOpt, SomeOpt(CustomUrl)}, t \in {NoneOpt, SomeOpt(5)} }
HoldStatuses == {NoneOpt, SomeOpt(TRUE), SomeOpt(FALSE)}
EnvValues == {"true", ""}
Nonces == {"n1", "n2"}
Evidences == {<<"e1">>, <<"e1", "e2">>}
RoundEndpoints == {e \in Endpoints : Len(e.keys) <= 1}

RoundIdle ==
    /\ api = "attest_remote"
    /\ options = Options(NoneOpt, NoneOpt, NoneOpt, NoneOpt, NoneOpt)
    /\ nonce = "" /\ evidence_list = <<>> /\ env_hold = ""
    /\ verifier = Answer(FALSE, FALSE, FALSE, FALSE, "", JNull)
    /\ spc = "idle" /\ request = NoRequest /\ posts = 0 /\ response_json = JNull
    /\ sresult = NoSRes

CallsIdle == calls = <<>> /\ cpc = <<>> /\ sent = <<>>
HoldIdle == CERT_HOLD_STATUS = NoneOpt /\ CallsIdle

\* decode_nras_token not yet called; what the key-set endpoint serves is an
\* input of the round.
TokenWaiting ==
    /\ verifier_url = Url(FALSE, "", "", "", "") /\ token = NoToken /\ vpc = "idle"
    /\ jwks_data = Endpoint(FALSE, FALSE, FALSE, <<>>) /\ kid = "none" /\ cert = NoCert
    /\ verified_with = "none" /\ vresult = NoVResult

\* The calls considered: every option against every kind of answer; every
\* shape of response body; every result token against every key set.
InitRound ==
    /\ \/ /\ api \in Apis
          /\ options \in OptionValues(api)
          /\ verifier \in AnswerKinds
          /\ env_hold \in EnvValues
          /\ CERT_HOLD_STATUS \in HoldStatuses
          /\ jwks_endpoint = GoodEndpoint
          /\ nonce = "n1" /\ evidence_list = <<"e1">>
       \/ /\ api = "verify_gpu_attestation"
          /\ options \in PlainOptions
          /\ \E v \in JsonShapes : verifier = GoodAnswer(v)
          /\ env_hold = "" /\ CERT_HOLD_STATUS = NoneOpt
          /\ jwks_endpoint = GoodEndpoint
          /\ nonce \in Nonces /\ evidence_list \in Evidences
       \/ /\ api \in {"verify_nvswitch_attestation", "attest_remote"}
          /\ options \in PlainOptions
          /\ \E tok \in Tokens : verifier = GoodAnswer(TokenResponse(tok))
          /\ env_hold = "" /\ CERT_HOLD_STATUS = NoneOpt
          /\ jwks_endpoint \in RoundEndpoints
          /\ nonce = "n1" /\ evidence_list = <<"e1">>
    /\ spc = "build" /\ request = NoRequest /\ posts = 0 /\ response_json = JNull
    /\ sresult = NoSRes

roundInputs == <<api, options, nonce, evidence_list, env_hold, verifier>>

SFinish(r) ==
    /\ sresult' = r
    /\ spc' = "done"

\* remote_gpu_attestation.rs lines 92-129: the URL, the headers, the payload
\* and the client; HeaderValue::from_str(service_key)? may return early.
Build ==
    /\ spc = "build"
    /\ UNCHANGED <<sessVars, parseVars, topoVars, tokenVars, netVars, holdVars>>
    /\ UNCHANGED <<roundInputs, posts, response_json>>
    /\ IF /\ api # "attest_remote" /\ options.service_key # NoneOpt
          /\ ~ValidHeaderValue(options.service_key[1])
       THEN SFinish(SErr("ServiceKeyParseError")) /\ UNCHANGED request
       ELSE /\ request' = BuildRequest(api, nonce, evidence_list, options,
                                       CERT_HOLD_STATUS, env_hold)
            /\ spc' = "post"
            /\ UNCHANGED sresult

\* remote_gpu_attestation.rs lines 132-145: client.post(..)...send().await;
\* a URL that does not parse fails the send with nothing put on the wire.
Post ==
    /\ spc = "post"
    /\ UNCHANGED <<sessVars, parseVars, topoVars, tokenVars, netVars, holdVars>>
    /\ UNCHANGED <<roundInputs, request, response_json>>
    /\ IF ~request.url.parses
       THEN SFinish(SErr("ParseResponseError")) /\ UNCHANGED posts
       ELSE /\ posts' = posts + 1
            /\ IF ~verifier.send
               THEN SFinish(SErr("ParseResponseError"))
               ELSE spc' = "status" /\ UNCHANGED sresult

\* response.status().is_success()
AnyStatus(answer) == TRUE
is_success(answer) == answer.success

\* remote_gpu_attestation.rs lines 147-153: response.text().await? and
\* Err(AttestError::ResponseError(error_message))
StatusErrorNoBody(answer) ==
    IF ~answer.readable THEN SErr("ParseResponseError") ELSE SResponseError("")
StatusError(answer) ==
    IF ~answer.readable THEN SErr("ParseResponseError") ELSE SResponseError(answer.text)

\* remote_gpu_attestation.rs lines 146-154
CheckStatus ==
    /\ spc = "status"
    /\ UNCHANGED <<sessVars, parseVars, topoVars, tokenVars, netVars, holdVars>>
    /\ UNCHANGED <<roundInputs, request, posts, response_json>>
    /\ IF ~is_success(verifier)
       THEN SFinish(StatusError(verifier))
       ELSE spc' = "json" /\ UNCHANGED sresult

\* remote_gpu_attestation.rs lines 155-156 and 171-181: response.json::<Value>()
DecodeBody ==
    /\ spc = "json"
    /\ UNCHANGED <<sessVars, parseVars, topoVars, tokenVars, netVars, holdVars>>
    /\ UNCHANGED <<roundInputs, request, posts>>
    /\ IF ~verifier.readable \/ ~verifier.isJson
       THEN SFinish(SErr("ParseResponseError")) /\ UNCHANGED response_json
       ELSE response_json' = verifier.json /\ spc' = "extract" /\ UNCHANGED sresult

\* remote_gpu_attestation.rs lines 165-167: get_overall_claims_token(..)? and
\* the call of decode_nras_token(&verifier_url, &main_jwt_token)
ExtractToken ==
    /\ spc = "extract"
    /\ UNCHANGED <<sessVars, parseVars, topoVars, netVars, holdVars>>
    /\ UNCHANGED <<roundInputs, request, posts, response_json>>
    /\ UNCHANGED <<jwks_endpoint, jwks_data, kid, cert, verified_with, vresult>>
    /\ IF get_overall_claims_token(response_json).kind = "err"
       THEN /\ SFinish(SErr(get_overall_claims_token(response_json).err))
            /\ UNCHANGED <<token, verifier_url, vpc>>
       ELSE /\ token' = get_overall_claims_token(response_json).val
            /\ verifier_url' = request.url
            /\ vpc' = "jwks_url"
            /\ spc' = "decode"
            /\ UNCHANGED sresult

\* remote_gpu_attestation.rs lines 166-169: decode_nras_token(..).await? and
\* Ok((attestation_result, response_json))
RoundOutcomeFailOnFalse(vr, raw) ==
    IF vr.kind = "err" THEN SErr(vr.err)
    ELSE IF ~vr.val.overall_attestation_result THEN SErr("RemoteAttestationFailed")
    ELSE SOk(vr.val.overall_attestation_result, raw)
RoundOutcome(vr, raw) ==
    IF vr.kind = "err" THEN SErr(vr.err)
    ELSE SOk(vr.val.overall_attestation_result, raw)

RoundReturn ==
    /\ spc = "decode" /\ vpc = "done"
    /\ UNCHANGED <<sessVars, parseVars, topoVars, tokenVars, netVars, holdVars>>
    /\ UNCHANGED <<roundInputs, request, posts, response_json>>
    /\ SFinish(RoundOutcome(vresult, response_json))

\* ------------------------------------------------------------------------
\* Concurrent calls: each builds its request (lines 92-126) and sends it
\* (lines 127-145), while set_allow_hold_cert may be called at any time.
Calls == {1, 2}
Call(f, n, ev, o, e) ==
    [api |-> f, nonce |-> n, evidence_list |-> ev, options |-> o, env |-> e]
CallValues ==
    { Call(f, n, <<"e1">>, Options(NoneOpt, h, NoneOpt, NoneOpt, NoneOpt), e) :
        f \in {"verify_gpu_attestation", "verify_nvswitch_attestation"},
        n \in Nonces, h \in HoldStatuses, e \in EnvValues }

InitCalls ==
    /\ CERT_HOLD_STATUS = NoneOpt
    /\ calls \in [Calls -> CallValues]
    /\ cpc = [c \in Calls |-> "build"]
    /\ sent = [c \in Calls |-> NoRequest]

\* utils.rs lines 20-23
set_allow_hold_cert ==
    /\ \E value \in BOOLEAN : CERT_HOLD_STATUS' = SomeOpt(value)
    /\ UNCHANGED <<calls, cpc, sent>>
    /\ UNCHANGED <<sessVars, parseVars, topoVars, tokenVars, netVars, roundVars>>

CallBuild(c) ==
    /\ cpc[c] = "build"
    /\ sent' = [sent EXCEPT ![c] =
                   BuildRequest(calls[c].api, calls[c].nonce, calls[c].evidence_list,
                                calls[c].options, CERT_HOLD_STATUS, calls[c].env)]
    /\ cpc' = [cpc EXCEPT ![c] = "post"]
    /\ UNCHANGED <<CERT_HOLD_STATUS, calls>>
    /\ UNCHANGED <<sessVars, parseVars, topoVars, tokenVars, netVars, roundVars>>

CallPost(c) ==
    /\ cpc[c] = "post"
    /\ cpc' = [cpc EXCEPT ![c] = "posted"]
    /\ UNCHANGED <<CERT_HOLD_STATUS, calls, sent>>
    /\ UNCHANGED <<sessVars, parseVars, topoVars, tokenVars, netVars, roundVars>>

\* ------------------------------------------------------------------------
\* ------------------------------------------------------------------------
\* nscq/src/session.rs, with the library calls of nscq/src/functions.rs

MaxUuids == 2
Uuids == {1, 2, 3}
UuidVecs == UNION {[1..n -> Uuids] : n \in 0..MaxUuids}
\* NscqRc: 0 is success, every other code is returned as Err
NscqRcs == {0, -1, 1}

NRes(k, rc) == [kind |-> k, rc |-> rc]
NoNRes == NRes("none", 0)

SessIdle ==
    /\ flags = 0 /\ uuids = <<>> /\ npc = "idle" /\ session = NoneOpt /\ mounted = 0
    /\ lib_created = 0 /\ lib_destroyed = 0 /\ nresult = NoNRes

InitSess ==
    /\ flags \in {0, 1}
    /\ uuids \in UuidVecs
    /\ npc = "create"
    /\ session = NoneOpt /\ mounted = 0
    /\ lib_created = 0 /\ lib_destroyed = 0 /\ nresult = NoNRes

\* functions.rs nscq_session_destroy: the library is told to destroy
nscq_session_destroy(n) == n + 1

\* session.rs line 30: nscq_session_create(flags)?
SessionCreate ==
    /\ npc = "create"
    /\ UNCHANGED nonSessVars
    /\ \E rc \in NscqRcs :
         IF rc # 0
         THEN /\ nresult' = NRes("err", rc) /\ npc' = "returned"
              /\ UNCHANGED <<session, lib_created>>
         ELSE /\ session' = SomeOpt(1) /\ lib_created' = lib_created + 1
              /\ npc' = "mount" /\ UNCHANGED nresult
    /\ UNCHANGED <<flags, uuids, mounted, lib_destroyed>>

\* session.rs lines 31-33: one pass of the loop, nscq_session_mount(..)?
SessionMount ==
    /\ npc = "mount" /\ mounted < Len(uuids)
    /\ UNCHANGED nonSessVars
    /\ \E rc \in NscqRcs :
         IF rc # 0
         THEN /\ nresult' = NRes("err", rc) /\ npc' = "returned" /\ UNCHANGED mounted
         ELSE /\ mounted' = mounted + 1 /\ UNCHANGED <<npc, nresult>>
    /\ UNCHANGED <<flags, uuids, session, lib_created, lib_destroyed>>

\* session.rs line 34: Ok(Self { session })
SessionBuilt ==
    /\ npc = "mount" /\ mounted = Len(uuids)
    /\ UNCHANGED nonSessVars
    /\ nresult' = NRes("ok", 0) /\ npc' = "built"
    /\ UNCHANGED <<flags, uuids, session, mounted, lib_created, lib_destroyed>>

\* session.rs lines 142-146: the Session value goes out of scope
SessionDrop ==
    /\ npc = "built"
    /\ UNCHANGED nonSessVars
    /\ lib_destroyed' = nscq_session_destroy(lib_destroyed)
    /\ npc' = "dropped"
    /\ UNCHANGED <<flags, uuids, session, mounted, lib_created, nresult>>

vars == <<parseVars, topoVars, tokenVars, netVars, roundVars, holdVars, sessVars>>

Idle == NetIdle /\ RoundIdle /\ HoldIdle /\ SessIdle

InitSessSpec == ParseIdle /\ TopoIdle /\ TokenIdle /\ NetIdle /\ RoundIdle /\ HoldIdle /\ InitSess
NextSessSpec ==
    \/ SessionCreate
    \/ SessionMount
    \/ SessionBuilt
    \/ SessionDrop
SpecSession == InitSessSpec /\ [][NextSessSpec]_vars

InitParseSpec == InitParse /\ TopoIdle /\ TokenIdle /\ Idle
NextParseSpec ==
    \/ CheckLength
    \/ Position
    \/ SliceOpaque
    \/ ScanNeighbor
    \/ ScanOwn
    \/ ScanGpu
    \/ SplitNeighbor
    \/ SplitDevice
SpecParse == InitParseSpec /\ [][NextParseSpec]_vars

InitTopoSpec == ParseIdle /\ InitTopo /\ TokenIdle /\ Idle
NextTopoSpec ==
    \/ GpuCheckCount
    \/ GpuCheckReport
    \/ GpuReturn
    \/ SwitchCheckCount
    \/ SwitchCheckReport
    \/ SwitchReturn
SpecTopo == InitTopoSpec /\ [][NextTopoSpec]_vars

InitTokenSpec == ParseIdle /\ TopoIdle /\ InitToken /\ Idle
NextTokenSpec ==
    \/ CreateJwksUrl
    \/ FetchJwks
    \/ DecodeHeader
    \/ MatchKey
    \/ DecodeCert
    \/ DecodeJwt
SpecToken == InitTokenSpec /\ [][NextTokenSpec]_vars

InitRoundSpec ==
    ParseIdle /\ TopoIdle /\ TokenWaiting /\ NetIdle /\ InitRound /\ CallsIdle /\ SessIdle
NextRoundSpec ==
    \/ Build
    \/ Post
    \/ CheckStatus
    \/ DecodeBody
    \/ ExtractToken
    \/ CreateJwksUrl
    \/ FetchJwks
    \/ DecodeHeader
    \/ MatchKey
    \/ DecodeCert
    \/ DecodeJwt
    \/ RoundReturn
SpecRound == InitRoundSpec /\ [][NextRoundSpec]_vars

InitCallsSpec ==
    ParseIdle /\ TopoIdle /\ TokenIdle /\ NetIdle /\ RoundIdle /\ InitCalls /\ SessIdle
NextCallsSpec ==
    \/ set_allow_hold_cert
    \/ \E c \in Calls : CallBuild(c)
    \/ \E c \in Calls : CallPost(c)
SpecCalls == InitCallsSpec /\ [][NextCallsSpec]_vars

\* ========================================================================
\* What a shape says the report holds, for stating the claims.

\* The offset, in the opaque block, of the header of entry i.
EntryOffset(sh, i) == Len(EntriesBytes(SubSeq(sh.entries, 1, i - 1)))

\* Entry i declares more bytes than the block has left after its header.
Overlong(sh, i) ==
    sh.entries[i].declared
        > Len(BlockBytes(sh)) - EntryOffset(sh, i) - OPAQUE_DATA_FIELD_TYPE - OPAQUE_DATA_FIELD_SIZE

\* The report is whole but for an entry that declares too much, and every
\* entry before that one is well formed and of a type no parser looks for.
OverlongEntryScanned(sh) ==
    /\ sh.cut = 0 /\ sh.olenDelta = 0 /\ sh.tail = <<>>
    /\ \E i \in 1..Len(sh.entries) :
          /\ Overlong(sh, i)
          /\ \A j \in 1..(i - 1) :
                EntryWellFormed(sh.entries[j]) /\ sh.entries[j].type \notin {22, 26}

\* The positions of the entries of type t.
EntriesOfType(sh, t) == {i \in 1..Len(sh.entries) : sh.entries[i].type = t}
TheEntry(sh, t) == sh.entries[CHOOSE i \in EntriesOfType(sh, t) : TRUE]
PdiList(ids) == [j \in 1..Len(ids) |-> Pdi(ids[j])]

\* A well-formed device report with one neighbor-PDIs entry, a concatenation
\* of PDIs.
DeviceReportShape(sh) ==
    /\ WellFormed(sh)
    /\ Cardinality(EntriesOfType(sh, 22)) = 1
    /\ TheEntry(sh, 22).extra = <<>>

\* A well-formed switch report with one own-PDI entry and one attached-PDIs
\* entry, a concatenation of PDIs.
SwitchReportShape(sh) ==
    /\ WellFormed(sh)
    /\ Cardinality(EntriesOfType(sh, 22)) = 1
    /\ Len(TheEntry(sh, 22).pdis) = 1 /\ TheEntry(sh, 22).extra = <<>>
    /\ Cardinality(EntriesOfType(sh, 26)) = 1
    /\ TheEntry(sh, 26).extra = <<>>

\* ------------------------------------------------------------------------
\* C1: in both parsers, a block with a TLV entry whose declared length
\* exceeds the bytes left in the block makes parsing return a typed error,
\* whatever the entry's type (stated as claimed; the code panics).
C1_OverlongEntryTypedError ==
    (pc = "done" /\ OverlongEntryScanned(shape)) => result.kind = "err"

\* C2: for a report of at least 37 bytes, a header field or an opaque block
\* that ends beyond the buffer makes parsing return
\* InvalidSpdmMeasurementLength (stated as claimed; the code panics).
C2_HeaderOffsetsChecked ==
    (/\ pc = "done"
     /\ Len(report) >= LENGTH_OF_SPDM_GET_MEASUREMENT_REQUEST_MESSAGE
     /\ shape.cut > 0 \/ shape.olenDelta > 0
     /\ shape.tail = <<>>
     /\ \A i \in 1..Len(shape.entries) : EntryWellFormed(shape.entries[i]))
    => (result.kind = "err" /\ result.err = "InvalidSpdmMeasurementLength")

\* C3: a buffer shorter than 37 bytes is rejected with InvalidReportLength by
\* both parsers, without a PDI returned and without a byte of it read.
C3_ShortBufferRejected ==
    Len(report) < 37 =>
        /\ reads = {}
        /\ result.kind \in {"none", "err"}
        /\ pc = "done" => (result.kind = "err" /\ result.err = "InvalidReportLength")
C3_Witness ==
    /\ pc = "done" /\ parser = "attached" /\ Len(report) = 36
    /\ result.err = "InvalidReportLength"

\* C4: for a well-formed switch report with an own-PDI entry P and an
\* attached-PDIs entry V1..Vk, in any order, the attached parser returns
\* [V1..Vk] and P (stated as claimed; the code does not).
C4_AttachedPdisExact ==
    (pc = "done" /\ parser = "attached" /\ SwitchReportShape(shape)) =>
        /\ result.kind = "ok"
        /\ result.val = [switch_device_gpu_pdis |-> PdiList(TheEntry(shape, 26).pdis),
                         switch_pdis |-> Pdi(TheEntry(shape, 22).pdis[1])]

\* C5: for a well-formed device report whose block holds a neighbor-PDIs
\* entry with value V1..Vk, the neighbor parser returns exactly [V1..Vk].
C5_NeighborPdisExact ==
    (pc = "done" /\ parser = "neighbor" /\ DeviceReportShape(shape)) =>
        /\ result.kind = "ok"
        /\ result.val = PdiList(TheEntry(shape, 22).pdis)
C5_Witness ==
    /\ pc = "done" /\ parser = "neighbor" /\ DeviceReportShape(shape)
    /\ EntriesOfType(shape, 22) = {2}
    /\ Len(TheEntry(shape, 22).pdis) = 2
    /\ result.kind = "ok" /\ Len(result.val) = 2

\* ------------------------------------------------------------------------
\* What a list of shapes says the reports hold.
NeighborSetOf(sh) == ToSet(PdiList(TheEntry(sh, 22).pdis)) \ {DISABLED_PDI}
AllDeviceReports == \A i \in 1..Len(reports) : DeviceReportShape(reports[i])
AllFourEnabled ==
    \A i \in 1..Len(reports) : Cardinality(NeighborSetOf(reports[i])) = NUMBER_OF_SWITCH_PDIS
Divergent == {i \in 1..Len(reports) : NeighborSetOf(reports[i]) # NeighborSetOf(reports[1])}
EarliestDivergent == CHOOSE i \in Divergent : \A j \in Divergent : i <= j

\* C6: gpu_topology_check returns Ok(S) exactly when there are 8 reports,
\* every one parses, and every one's neighbor set less the zero PDI is the
\* same set S of 4; S never holds the zero PDI.
C6_GpuTopologyOkExactly ==
    (checker = "gpu" /\ tpc = "done") =>
        /\ tresult.kind = "ok" <=>
              /\ Len(reports) = 8
              /\ AllDeviceReports
              /\ AllFourEnabled
              /\ Divergent = {}
        /\ tresult.kind = "ok" =>
              /\ tresult.val = NeighborSetOf(reports[1])
              /\ Cardinality(tresult.val) = 4
              /\ DISABLED_PDI \notin tresult.val
C6_Witness ==
    /\ checker = "gpu" /\ tpc = "done" /\ tresult.kind = "ok"
    /\ \E i \in 1..Len(reports) : DISABLED_PDI \in ToSet(PdiList(TheEntry(reports[i], 22).pdis))
    /\ \E i \in 1..Len(reports) : reports[i] # reports[1]
    /\ tresult.val = {Pdi(1), Pdi(2), Pdi(3), Pdi(4)}

\* C7: with 8 parseable reports of 4 enabled PDIs each, one of which differs
\* from the first, the result is InvalidSwitchPdisTopology whose expected is
\* the first report's set and whose actual is the earliest divergent one's.
C7_GpuTopologyMismatch ==
    (/\ checker = "gpu" /\ tpc = "done"
     /\ Len(reports) = 8 /\ AllDeviceReports /\ AllFourEnabled /\ Divergent # {})
    => tresult = TRes("err", "InvalidSwitchPdisTopology", {},
                      NeighborSetOf(reports[1]), NeighborSetOf(reports[EarliestDivergent]))
C7_Witness ==
    /\ checker = "gpu" /\ tpc = "done"
    /\ Len(reports) = 8 /\ AllDeviceReports /\ AllFourEnabled
    /\ \E i \in Divergent :
          /\ i # EarliestDivergent
          /\ NeighborSetOf(reports[i]) # NeighborSetOf(reports[EarliestDivergent])
    /\ tresult.err = "InvalidSwitchPdisTopology"
    /\ tresult.actual = NeighborSetOf(reports[EarliestDivergent])

\* C8: with a number of reports other than 8, gpu_topology_check returns its
\* length error and parses no report.
C8_GpuCountCheckedFirst ==
    (checker = "gpu" /\ Len(reports) # 8) =>
        /\ parsed = 0
        /\ tresult.kind \in {"none", "err"}
        /\ tpc = "done" => tresult = TErr("InvalidGpuAttestationReportsLength")
C8_Witness ==
    /\ checker = "gpu" /\ tpc = "done" /\ Len(reports) = 9
    /\ DeviceReportShape(reports[1])
    /\ tresult.err = "InvalidGpuAttestationReportsLength" /\ parsed = 0

\* C9: switch_topology_check accepts 4 well-formed switch reports whose own
\* PDIs are accepted and whose attached sets are the same set of the
\* expected cardinality (stated as claimed; the code rejects them).
C9_SwitchTopologyAccepts ==
    (/\ checker = "switch" /\ tpc = "done"
     /\ Len(reports) = 4
     /\ \A i \in 1..Len(reports) :
           /\ SwitchReportShape(reports[i])
           /\ Pdi(TheEntry(reports[i], 22).pdis[1]) \in accepted_set
           /\ Cardinality(ToSet(TheEntry(reports[i], 26).pdis)) = num_gpus
           /\ ToSet(TheEntry(reports[i], 26).pdis) = ToSet(TheEntry(reports[1], 26).pdis))
    => tresult.kind = "ok"

\* ------------------------------------------------------------------------
\* The key-set entries whose kid is the token's, as the endpoint serves them.
KidHits == {i \in 1..Len(jwks_endpoint.keys) : jwks_endpoint.keys[i].kid = token.kid}
FirstHit == jwks_endpoint.keys[CHOOSE i \in KidHits : \A j \in KidHits : i <= j]
HasFirstCert ==
    /\ token.header = "ok" /\ token.kid # "none"
    /\ jwks_endpoint.hasKeys /\ KidHits # {}
    /\ FirstHit.hasX5c /\ FirstHit.x5c # <<>> /\ FirstHit.x5c[1].str
CertDecodes == FirstHit.x5c[1].b64 /\ FirstHit.x5c[1].der

\* C10: decode_nras_token produces claims only after the signature has been
\* verified with ES384 under the key of the first certificate of the key-set
\* entry whose kid is the header's; a missing kid, entry or certificate, an
\* undecodable certificate, a failed signature or claims that do not fit the
\* schema give a typed error and no claims.
C10_ClaimsOnlyAfterVerification ==
    vpc = "done" =>
        /\ vresult.kind \in {"ok", "err"}
        /\ vresult.kind = "err" => vresult.val = "none"
        /\ vresult.kind = "ok" <=>
              /\ verifier_url.parses /\ jwks_endpoint.send /\ jwks_endpoint.json
              /\ HasFirstCert /\ CertDecodes
              /\ token.alg = "ES384"
              /\ token.signer = FirstHit.x5c[1].key
              /\ token.claims # "bad"
        /\ vresult.kind = "ok" =>
              /\ verified_with = FirstHit.x5c[1].key
              /\ verified_with = token.signer
              /\ vresult.val = [overall_attestation_result |-> (token.claims = "true")]
C10_Witness ==
    /\ vpc = "done" /\ vresult.kind = "ok"
    /\ Len(jwks_endpoint.keys) = 2
    /\ KidHits = {2}
    /\ Len(FirstHit.x5c) = 2
    /\ FirstHit.x5c[2].key # token.signer

\* C11: when no entry of the key set carries the kid of the token's header,
\* decode_nras_token returns InvalidJwtToken, no certificate is taken and no
\* claims come out; when several entries carry that kid, the certificate
\* taken and the key verified with are those of the first in key-set order.
C11_KidSelectsFirstEntry ==
    /\ ( /\ vpc = "done"
         /\ verifier_url.parses /\ jwks_endpoint.send /\ jwks_endpoint.json
         /\ token.header = "ok" /\ token.kid # "none"
         /\ KidHits = {} )
       => /\ vresult = VErr("InvalidJwtToken")
          /\ cert = NoCert /\ verified_with = "none"
    /\ cert # NoCert => KidHits # {} /\ cert = FirstHit.x5c[1]
    /\ verified_with # "none" => KidHits # {} /\ verified_with = FirstHit.x5c[1].key
C11_Witness ==
    /\ vpc = "done" /\ vresult.kind = "ok"
    /\ Len(jwks_endpoint.keys) = 2 /\ KidHits = {1, 2}
    /\ jwks_endpoint.keys[2].x5c # <<>>
    /\ jwks_endpoint.keys[2].x5c[1].key # verified_with

\* The response body was decoded and handed to get_overall_claims_token.
Extracted ==
    /\ spc \in {"decode", "done"} /\ posts = 1
    /\ verifier.send /\ verifier.success /\ verifier.readable /\ verifier.isJson
\* An array whose element 0 is an array carrying a string at index 1.
ShapeHasToken(v) ==
    /\ v.t = "arr" /\ Len(v.a) >= 1
    /\ v.a[1].t = "arr" /\ Len(v.a[1].a) >= 2
    /\ v.a[1].a[2].t = "str"

\* C12 (as amended): get_overall_claims_token returns element 1 of element 0
\* when the response is an array whose element 0 is an array carrying a
\* string at index 1, and that string is the token handed to
\* decode_nras_token; for every other shape the call ends with the typed
\* JsonError error, no token and no token verification.
C12_ClaimsTokenExtracted ==
    Extracted =>
        IF ShapeHasToken(verifier.json)
        THEN /\ token = verifier.json.a[1].a[2].s
             /\ vpc # "idle"
             /\ sresult.kind = "err" => sresult.err # "JsonError"
        ELSE /\ spc = "done"
             /\ sresult = SErr("JsonError")
             /\ token = NoToken /\ vpc = "idle"
C12_Witness ==
    /\ Extracted /\ spc = "done"
    /\ ShapeHasToken(verifier.json)
    /\ verifier.json.a[1].a[1].t = "str"
    /\ verifier.json.a[1].a[1].s # token
    /\ sresult.kind = "ok"
\* C12 (as stated): every other shape gives the typed InvalidJwtToken error.
C12_OtherShapesInvalidJwtToken ==
    (Extracted /\ ~ShapeHasToken(verifier.json)) =>
        /\ spc = "done"
        /\ sresult = SErr("InvalidJwtToken")
        /\ token = NoToken /\ vpc = "idle"

\* The request can be built and put on the wire: the service key, when
\* given, is a valid header value and the verifier URL parses.
KeyAccepted ==
    \/ api = "attest_remote" \/ options.service_key = NoneOpt
    \/ ValidHeaderValue(options.service_key[1])
UrlParses == unwrap_or(options.verifier_url, DefaultUrl(api)).parses

AnswerRejected ==
    /\ posts = 1
    /\ \/ ~verifier.send
       \/ ~verifier.success
       \/ ~verifier.readable
       \/ ~verifier.isJson

C18_BothCallsBoundedByTimeout ==
    /\ posts = 1 => request.timeout = unwrap_or(options.timeout, 30)
    /\ gets = 1 =>
          /\ get_timeout = unwrap_or(options.timeout, 30)
          /\ get_timeout = request.timeout

\* The token the verifier returned verifies: the key set is served, the
\* first certificate of the entry with the token's kid decodes, and the
\* token is signed with ES384 under its key and carries claims of the schema.
TokenVerifies ==
    /\ Extracted /\ ShapeHasToken(verifier.json)
    /\ jwks_endpoint.send /\ jwks_endpoint.json
    /\ HasFirstCert /\ CertDecodes
    /\ token.alg = "ES384"
    /\ token.signer = FirstHit.x5c[1].key
    /\ token.claims # "bad"

\* C19: a call returns Ok((passed, raw_response)) exactly when the token
\* verifies, with passed the token's overall attestation result and
\* raw_response the verifier's JSON response unmodified; a verified token
\* whose overall result is false gives Ok((false, raw_response)), not an
\* error; every other outcome is a typed error carrying no boolean.
C19_OkExactlyWhenTokenVerifies ==
    spc = "done" =>
        /\ sresult.kind \in {"ok", "err"}
        /\ sresult.kind = "ok" <=> TokenVerifies
        /\ sresult.kind = "ok" =>
              /\ sresult.passed = (token.claims = "true")
              /\ sresult.raw = verifier.json
              /\ verified_with = token.signer
        /\ sresult.kind = "err" =>
              /\ sresult.err # "none"
              /\ sresult.passed = FALSE /\ sresult.raw = JNull
C19_Witness ==
    /\ spc = "done" /\ TokenVerifies
    /\ token.claims = "false"
    /\ sresult = SOk(FALSE, verifier.json)

\* Two calls given the same explicit arguments, both with their request built.
SameArguments(c, d) ==
    /\ cpc[c] # "build" /\ cpc[d] # "build"
    /\ calls[c].api = calls[d].api
    /\ calls[c].nonce = calls[d].nonce
    /\ calls[c].evidence_list = calls[d].evidence_list
    /\ calls[c].options = calls[d].options

\* C16: the request a call sends is a function of its explicit arguments
\* only: while set_allow_hold_cert has not been called, two calls given the
\* same nonce, evidence and options send the same URL, headers and payload
\* whatever NV_ALLOW_HOLD_CERT holds for each, also when
\* options.allow_hold_cert is not supplied.
C16_RequestIgnoresEnvironment ==
    CERT_HOLD_STATUS = NoneOpt =>
        \A c \in Calls, d \in Calls : SameArguments(c, d) => sent[c] = sent[d]

\* C17: no state is shared across rounds: under every interleaving of
\* concurrent calls and set_allow_hold_cert calls, two calls given the same
\* nonce, evidence and options in the same environment send the same request.
C17_RequestIgnoresSharedState ==
    \A c \in Calls, d \in Calls :
        (SameArguments(c, d) /\ calls[c].env = calls[d].env) => sent[c] = sent[d]

\* The error kinds the two report parsers return, over the reports of the
\* parse machine.
ParserErrorKinds ==
    { extract_switch_pdis_in_gpu_attestation_report_data(BuildReport(sh)).err :
        sh \in { s \in ParseShapes :
                   extract_switch_pdis_in_gpu_attestation_report_data(BuildReport(s)).kind = "err" } }
    \cup
    { extract_device_pdis_in_gpu_attestation_report_data(BuildReport(sh)).err :
        sh \in { s \in ParseShapes :
                   extract_device_pdis_in_gpu_attestation_report_data(BuildReport(s)).kind = "err" } }
\* The parser returns Ok for every report handed to the topology check.
ReportsAllParse ==
    \A i \in 1..Len(reports) :
        IF checker = "gpu"
        THEN extract_switch_pdis_in_gpu_attestation_report_data(BuildReport(reports[i])).kind = "ok"
        ELSE extract_device_pdis_in_gpu_attestation_report_data(BuildReport(reports[i])).kind = "ok"

\* C20: the error a topology check returns when every report parses (wrong
\* number of enabled PDIs, own PDI not in the accepted set, divergent set) is
\* of a kind that no parser returns.
C20_TopologyErrorKindsDistinct ==
    (tpc = "done" /\ tresult.kind = "err" /\ ReportsAllParse)
        => tresult.err \notin ParserErrorKinds

\* C21: the request a call sends carries Content-Type: application/json,
\* the Authorization header exactly when a service key was supplied, the
\* cert-hold header exactly when cert hold is allowed, and a body with the
\* keys nonce, evidence_list, claims_version and arch, the nonce being the
\* caller's and claims_version "2.0" when the caller gave none; an invalid
\* service key ends the call with a typed error and no request sent.
C21_RequestCarriesHeadersAndBody ==
    /\ posts = 1 =>
          /\ request.headers.content_type = "application/json"
          /\ request.headers.authorization # NoneOpt <=> options.service_key # NoneOpt
          /\ request.headers.authorization # NoneOpt
                => request.headers.authorization = options.service_key
          /\ request.headers.cert_hold
                <=> IF options.allow_hold_cert # NoneOpt THEN options.allow_hold_cert[1]
                    ELSE get_allow_hold_cert(CERT_HOLD_STATUS, env_hold)
          /\ request.payload.nonce = nonce
          /\ request.payload.evidence_list = evidence_list
          /\ request.payload.arch \in {HOPPER_ARCH, LS10_ARCH}
          /\ request.payload.claims_version # NoneOpt
          /\ options.claims_version = NoneOpt => request.payload.claims_version = SomeOpt("2.0")
          /\ options.claims_version # NoneOpt
                => request.payload.claims_version = options.claims_version
    /\ (spc = "done" /\ ~KeyAccepted) => posts = 0 /\ sresult = SErr("ServiceKeyParseError")

\* C22: the key-set GET goes to <scheme>://<host>[:port]/.well-known/jwks.json
\* with the scheme, host and port of the verifier URL and nothing else of it,
\* so verifier URLs that differ only in path, query or fragment give the same
\* endpoint; a verifier URL that does not parse gives UrlParseError and no GET.
C22_JwksUrlFromSchemeHostPort ==
    /\ gets = 1 =>
          /\ verifier_url.parses
          /\ get_url = [scheme |-> verifier_url.scheme, host |-> verifier_url.host,
                        port |-> verifier_url.port, path |-> "/.well-known/jwks.json"]
    /\ (vpc = "done" /\ ~verifier_url.parses) =>
          /\ vresult = VErr("UrlParseError")
          /\ gets = 0 /\ get_url = NoJwksUrl
C22_Witness ==
    /\ gets = 1 /\ vpc = "done"
    /\ verifier_url.port = ":8080"
    /\ verifier_url.path # get_url.path
    /\ get_url.port = ":8080"

\* C23: in both parsers a neighbor/attached-PDIs entry whose value length is
\* no multiple of 8 makes parsing fail with InvalidSwitchPdisLength; no PDI
\* list comes out of such an entry (found is the value the scan handed to the
\* splitting function).
C23_RaggedValueRejected ==
    pc = "done" =>
        /\ (parser = "neighbor" /\ Len(found) % 8 # 0)
              => (result.kind = "err" /\ result.err = "InvalidSwitchPdisLength")
        /\ (parser = "attached" /\ Len(found) = 2 /\ Len(found[1]) % 8 # 0)
              => (result.kind = "err" /\ result.err = "InvalidSwitchPdisLength")

\* C24: the set of attached PDIs that switch_topology_check counts and
\* compares never holds the all-zero PDI, so that when it succeeds every
\* report lists num_gpus enabled PDIs.
C24_SwitchSetWithoutDisabledPdi ==
    checker = "switch" =>
        /\ unique_set.some => DISABLED_PDI \notin unique_set.set
        /\ (tpc = "done" /\ tresult.kind = "ok")
              => Cardinality(unique_set.set \ {DISABLED_PDI}) = num_gpus

\* The scan stands at a position of the opaque block with 1 to 3 bytes left.
HeaderCut ==
    /\ current_position < Len(opaque_data)
    /\ Len(opaque_data) - current_position < OPAQUE_DATA_FIELD_TYPE + OPAQUE_DATA_FIELD_SIZE

\* C25: in both parsers, when fewer than 4 bytes of the opaque block remain
\* at the scan position, parsing returns InvalidOpaqueDataType (the type
\* cannot be read) or InvalidOpaqueDataSize (the type can, the length
\* cannot).
C25_CutHeaderTypedError ==
    (pc = "done" /\ HeaderCut) =>
        /\ result.kind = "err"
        /\ result.err = IF Len(opaque_data) - current_position < OPAQUE_DATA_FIELD_TYPE
                        THEN "InvalidOpaqueDataType" ELSE "InvalidOpaqueDataSize"

\* The first entry of type t in block order.
FirstEntry(sh, t) ==
    sh.entries[CHOOSE i \in EntriesOfType(sh, t) : \A j \in EntriesOfType(sh, t) : i <= j]

\* C26: when the block of a well-formed report holds several entries of a
\* sought type, each parser returns the value of the first one in block
\* order; the attached parser does so for the own-PDI entry and for the
\* attached-PDIs entry wherever the other one sits.
C26_FirstEntryWins ==
    (pc = "done" /\ WellFormed(shape)) =>
        /\ ( /\ parser = "neighbor"
             /\ EntriesOfType(shape, 22) # {}
             /\ FirstEntry(shape, 22).extra = <<>> )
           => /\ result.kind = "ok"
              /\ result.val = PdiList(FirstEntry(shape, 22).pdis)
        /\ ( /\ parser = "attached"
             /\ EntriesOfType(shape, 22) # {} /\ EntriesOfType(shape, 26) # {}
             /\ Len(FirstEntry(shape, 22).pdis) = 1 /\ FirstEntry(shape, 22).extra = <<>>
             /\ FirstEntry(shape, 26).extra = <<>> )
           => /\ result.kind = "ok"
              /\ result.val = [switch_device_gpu_pdis |-> PdiList(FirstEntry(shape, 26).pdis),
                               switch_pdis |-> Pdi(FirstEntry(shape, 22).pdis[1])]


\* ------------------------------------------------------------------------
\* The scans as loops: what each pass of a scan seeks and how it can end
Scans == {"scan", "scan_own", "scan_gpu"}

SoughtType(at) ==
    CASE at = "scan" -> OPAQUE_FIELD_ID_SWITCH_PDI
      [] at = "scan_own" -> OPAQUE_FIELD_ID_DEVICE_PDI
      [] OTHER -> OPAQUE_FIELD_ID_SWITCH_GPU_PDIS

NotFoundOf(at) ==
    CASE at = "scan" -> "NvSwitchPdisNotFound"
      [] at = "scan_own" -> "SwitchPdisNotFound"
      [] OTHER -> "SwitchGpuPdisNotFound"

TypeAtPosition ==
    u16_from_le_bytes(At(opaque_data, current_position), At(opaque_data, current_position + 1))

\* One step of a scan: a pass that goes on moves the position forward and has
\* met an entry of another type; a scan that hands over a value stands at an
\* entry of the sought type; a scan ends with its NotFound error exactly when
\* the position has reached the end of the block.
ScanStepOrderly ==
    /\ (pc \in Scans /\ pc' = pc) =>
          /\ current_position' > current_position
          /\ TypeAtPosition # SoughtType(pc)
    /\ (pc \in Scans /\ pc' \notin {pc, "done"}) =>
          /\ current_position < Len(opaque_data)
          /\ TypeAtPosition = SoughtType(pc)
    /\ (pc \in Scans /\ pc' = "done") =>
          (current_position >= Len(opaque_data)
              <=> (result'.kind = "err" /\ result'.err = NotFoundOf(pc)))

\* The parser under weak fairness of its steps: a call that has begun runs on.
SpecParseLive == SpecParse /\ WF_vars(NextParseSpec)

C28_SessionDestroyedOnce ==
    /\ lib_destroyed <= lib_created
    /\ (npc = "returned" /\ nresult.kind = "err") => lib_destroyed = lib_created
    /\ npc = "dropped" => (lib_created = 1 /\ lib_destroyed = 1)


\* The own PDI the attached parser returns for the report of a shape.
OwnPdiOf(sh) ==
    extract_device_pdis_in_gpu_attestation_report_data(BuildReport(sh)).val.switch_pdis

\* C29: when switch_topology_check succeeds, the own PDIs of the 4 switch
\* reports are pairwise distinct and together are the accepted set: one
\* report supplied four times is not accepted.
C29_OwnPdisPairwiseDistinct ==
    (checker = "switch" /\ tpc = "done" /\ tresult.kind = "ok") =>
        /\ \A i, j \in 1..Len(reports) :
              i # j => OwnPdiOf(reports[i]) # OwnPdiOf(reports[j])
        /\ {OwnPdiOf(reports[i]) : i \in 1..Len(reports)} = accepted_set


\* ------------------------------------------------------------------------
\* gpu_topology_check as a function of its reports (topology.rs lines 59-126)
RECURSIVE GpuLoopFrom(_, _, _)
GpuLoopFrom(rs, i, u) ==
    IF i > Len(rs) THEN (IF u.some THEN TOk(u.set) ELSE TPanic)
    ELSE LET r == extract_switch_pdis_in_gpu_attestation_report_data(BuildReport(rs[i]))
         IN CASE r.kind = "panic" -> TPanic
              [] r.kind = "err" -> TErr(r.err)
              [] OTHER ->
                   IF Cardinality(EnabledSet(r.val)) # NUMBER_OF_SWITCH_PDIS
                   THEN TErr("InvalidSwitchPdisLength")
                   ELSE IF u.some
                        THEN IF u.set # EnabledSet(r.val)
                             THEN TMismatch("InvalidSwitchPdisTopology", u.set, EnabledSet(r.val))
                             ELSE GpuLoopFrom(rs, i + 1, u)
                        ELSE GpuLoopFrom(rs, i + 1, Some(EnabledSet(r.val)))

gpu_topology_check(rs) ==
    IF WrongGpuReportCount(Len(rs))
    THEN TErr("InvalidGpuAttestationReportsLength")
    ELSE GpuLoopFrom(rs, 1, None)

\* Rearrangements of a list of reports.  The swap of the first two and the
\* rotation by one generate every permutation of the list.
SwapFirstTwo(rs) ==
    [i \in 1..Len(rs) |-> IF i = 1 THEN rs[2] ELSE IF i = 2 THEN rs[1] ELSE rs[i]]
RotateByOne(rs) == [i \in 1..Len(rs) |-> rs[(i % Len(rs)) + 1]]
BackToFront(q) == [i \in 1..Len(q) |-> q[Len(q) + 1 - i]]

\* The PDIs of the neighbor entries of a shape, back to front / with the
\* first PDI of the entry written once more at its end.
EntryBackToFront(e) ==
    IF e.type = OPAQUE_FIELD_ID_SWITCH_PDI THEN [e EXCEPT !.pdis = BackToFront(e.pdis)] ELSE e
EntryFirstTwice(e) ==
    IF e.type = OPAQUE_FIELD_ID_SWITCH_PDI /\ e.pdis # <<>>
    THEN [e EXCEPT !.pdis = e.pdis \o <<e.pdis[1]>>,
                   !.declared = e.declared + PDI_DATA_FIELD_SIZE]
    ELSE e
ShapeBackToFront(sh) ==
    [sh EXCEPT !.entries = [k \in 1..Len(sh.entries) |-> EntryBackToFront(sh.entries[k])]]
ShapeFirstTwice(sh) ==
    [sh EXCEPT !.entries = [k \in 1..Len(sh.entries) |-> EntryFirstTwice(sh.entries[k])]]

Rearrangements(rs) ==
    { SwapFirstTwo(rs), RotateByOne(rs), BackToFront(rs),
      [i \in 1..Len(rs) |-> ShapeBackToFront(rs[i])],
      [i \in 1..Len(rs) |-> ShapeFirstTwice(rs[i])],
      [i \in 1..Len(rs) |-> IF i = 1 THEN ShapeFirstTwice(ShapeBackToFront(rs[i])) ELSE rs[i]],
      [i \in 1..Len(rs) |-> IF i = Len(rs) THEN ShapeBackToFront(rs[i]) ELSE rs[i]] }

\* C30: the outcome of gpu_topology_check is insensitive to order: on the 8
\* reports permuted, or with the PDIs of a report's neighbor entry permuted
\* or duplicated, the check is Ok exactly when it is Ok on the reports as
\* given, and then returns the same set.
C30_OutcomeInsensitiveToOrder ==
    (checker = "gpu" /\ tpc = "done" /\ Len(reports) = NUMBER_OF_GPU_TOPOLOGY_CHECK_REPORTS) =>
        \A rs \in Rearrangements(reports) :
            /\ (gpu_topology_check(rs).kind = "ok") <=> (tresult.kind = "ok")
            /\ tresult.kind = "ok" => gpu_topology_check(rs).val = tresult.val
C30_Witness ==
    /\ checker = "gpu" /\ tpc = "done" /\ tresult.kind = "ok"
    /\ reports[1] = NeighborShape(<<4, 0, 3, 2, 1, 1>>)
    /\ reports[2] = NeighborShape(<<1, 2, 3, 4, 0>>)
    /\ SwapFirstTwo(reports) # reports
    /\ gpu_topology_check(SwapFirstTwo(reports)) = tresult

====
